---- MODULE Spec2Model ----
(***************************************************************************)
(* A model of clim, a command-line mod manager: the ordered mod registry   *)
(* of the active game (clim.toml), the archive store, the extraction       *)
(* cache, the game folder that mods are linked into, and the commands of   *)
(* src/main.rs that act on them.                                           *)
(*                                                                         *)
(* Strings are sequences of one-character strings, so that what the code   *)
(* computes on names (lower-casing, substring search, file extension,      *)
(* capitalisation) is computed here too.  A path is a sequence of          *)
(* components.  Option<T> is a sequence of length at most one.             *)
(***************************************************************************)
EXTENDS Integers, Sequences, FiniteSets, TLC

None == <<>>
Some(x) == <<x>>
IsSome(o) == o # <<>>
\* `let x = ...;` followed by the code Op that uses x
With(x, Op(_)) == Op(x)

(***************************************************************************)
(* Characters and strings                                                  *)
(***************************************************************************)
Uppers == <<"A","B","C","D","E","F","G","H","I","J","K","L","M",
            "N","O","P","Q","R","S","T","U","V","W","X","Y","Z">>
Lowers == <<"a","b","c","d","e","f","g","h","i","j","k","l","m",
            "n","o","p","q","r","s","t","u","v","w","x","y","z">>
Digits == <<"0","1","2","3","4","5","6","7","8","9">>

\* Byte order of the characters that occur in names.
Collation == <<" ", ".">> \o Digits \o Uppers \o Lowers

InSeq(c, s) == \E i \in 1..Len(s) : s[i] = c
IndexIn(c, s) == CHOOSE i \in 1..Len(s) : s[i] = c

char_to_lowercase(c) == IF InSeq(c, Uppers) THEN Lowers[IndexIn(c, Uppers)] ELSE c
char_to_uppercase(c) == IF InSeq(c, Lowers) THEN Uppers[IndexIn(c, Lowers)] ELSE c
is_digit(c) == InSeq(c, Digits)

\* str::to_lowercase
to_lowercase(s) == [i \in 1..Len(s) |-> char_to_lowercase(s[i])]

\* str::contains(&str): substring search
contains(s, pat) ==
    \E i \in 0..(Len(s) - Len(pat)) : SubSeq(s, i + 1, i + Len(pat)) = pat

\* Position of the last '.' of a file name, 0 when there is none.
LastDot(name) ==
    IF \E i \in 1..Len(name) : name[i] = "."
    THEN CHOOSE i \in 1..Len(name) :
            name[i] = "." /\ \A j \in (i + 1)..Len(name) : name[j] # "."
    ELSE 0

\* Path::extension of a file name: None without a '.', None when the only
\* '.' is the first character, otherwise what follows the last '.'.
extension(name) ==
    IF name = <<".", ".">> \/ LastDot(name) <= 1
    THEN None
    ELSE Some(SubSeq(name, LastDot(name) + 1, Len(name)))

\* Path::file_stem of a file name: what precedes the last '.', the whole
\* name when extension() is None.
file_stem(name) ==
    IF name = <<".", ".">> \/ LastDot(name) <= 1
    THEN name
    ELSE SubSeq(name, 1, LastDot(name) - 1)

\* Byte-wise order on strings.
RECURSIVE StrLess(_, _)
StrLess(a, b) ==
    IF b = <<>> THEN FALSE
    ELSE IF a = <<>> THEN TRUE
    ELSE IF a[1] = b[1] THEN StrLess(Tail(a), Tail(b))
    ELSE IndexIn(a[1], Collation) < IndexIn(b[1], Collation)

(***************************************************************************)
(* Paths                                                                   *)
(***************************************************************************)
Front(p) == SubSeq(p, 1, Len(p) - 1)
Last(p) == p[Len(p)]
join(a, b) == a \o b
IsPrefix(p, q) == Len(p) <= Len(q) /\ SubSeq(q, 1, Len(p)) = p
\* pathdiff::diff_paths(path, top) for a path below top
diff_paths(path, top) == SubSeq(path, Len(top) + 1, Len(path))
\* Path::parent: None for the empty path
parent(p) == IF p = <<>> THEN None ELSE Some(Front(p))
\* Path::ends_with: the components of `child` end the path
ends_with(p, child) ==
    Len(child) <= Len(p) /\ SubSeq(p, Len(p) - Len(child) + 1, Len(p)) = child
Prefixes(p) == {SubSeq(p, 1, n) : n \in 0..Len(p)}

\* Component-wise order on paths: the order of a depth-first walk that
\* lists each directory's entries in ascending name order.
RECURSIVE PathLess(_, _)
PathLess(p, q) ==
    IF q = <<>> THEN FALSE
    ELSE IF p = <<>> THEN TRUE
    ELSE IF p[1] = q[1] THEN PathLess(Tail(p), Tail(q))
    ELSE StrLess(p[1], q[1])

RECURSIVE SortPaths(_)
SortPaths(S) ==
    IF S = {} THEN <<>>
    ELSE LET m == CHOOSE x \in S : \A y \in S \ {x} : PathLess(x, y)
         IN  <<m>> \o SortPaths(S \ {m})

\* utils::capitalize_path: the first character of every component of the
\* path below `top` in upper case.
capitalize_path(top, path) ==
    LET diff == diff_paths(path, top)
        capped == [i \in 1..Len(diff) |->
                     [j \in 1..Len(diff[i]) |->
                        IF j = 1 THEN char_to_uppercase(diff[i][j]) ELSE diff[i][j]]]
    IN  join(top, capped)

(***************************************************************************)
(* The file system: the set of directories and the files with what they    *)
(* hold.  A file's content is named by the archive member it was unpacked  *)
(* from (a hard link shares it), or is an archive or a file of the game.   *)
(***************************************************************************)
is_file(fs, p) == p \in DOMAIN fs.files
is_dir(fs, p) == p \in fs.dirs
exists(fs, p) == is_file(fs, p) \/ is_dir(fs, p)
AllPaths(fs) == fs.dirs \cup DOMAIN fs.files

\* The entries of directory d (fs::read_dir), as full paths.
read_dir(fs, d) == {p \in AllPaths(fs) : Len(p) = Len(d) + 1 /\ IsPrefix(d, p)}

Restrict(f, S) == [x \in S |-> f[x]]

\* fs::remove_file of an existing file
remove_file(fs, p) == [fs EXCEPT !.files = Restrict(fs.files, DOMAIN fs.files \ {p})]

\* fs::remove_dir succeeds only on an existing, empty directory.
can_remove_dir(fs, p) == is_dir(fs, p) /\ read_dir(fs, p) = {}
remove_dir(fs, p) == [fs EXCEPT !.dirs = fs.dirs \ {p}]

\* fs::remove_dir_all; its error on a missing directory is ignored by the caller.
remove_dir_all(fs, p) ==
    [dirs  |-> {d \in fs.dirs : ~IsPrefix(p, d)},
     files |-> Restrict(fs.files, {f \in DOMAIN fs.files : ~IsPrefix(p, f)})]

\* fs::create_dir_all fails when a component of the path is a file.
can_create_dir_all(fs, p) == \A q \in Prefixes(p) : ~is_file(fs, q)
create_dir_all(fs, p) == [fs EXCEPT !.dirs = fs.dirs \cup (Prefixes(p) \ {<<>>})]

\* fs::hard_link fails when the destination exists or its directory does not.
can_hard_link(fs, src, dst) ==
    is_file(fs, src) /\ ~exists(fs, dst) /\ dst # <<>> /\ is_dir(fs, Front(dst))
hard_link(fs, src, dst) ==
    [fs EXCEPT !.files = [x \in DOMAIN fs.files \cup {dst} |->
                            IF x = dst THEN fs.files[src] ELSE fs.files[x]]]

\* fs::copy overwrites the destination file.
copy(fs, src, dst) ==
    [fs EXCEPT !.files = [x \in DOMAIN fs.files \cup {dst} |->
                            IF x = dst THEN fs.files[src] ELSE fs.files[x]]]

\* fs::rename of a file or of a whole directory.  It fails when the
\* destination is a non-empty directory, or is of the other kind.
can_rename(fs, from, to) ==
    /\ exists(fs, from)
    /\ to # <<>> /\ is_dir(fs, Front(to))
    /\ ~(IsPrefix(from, to) /\ from # to)
    /\ IF is_dir(fs, from)
       THEN ~is_file(fs, to) /\ (is_dir(fs, to) => (read_dir(fs, to) = {} \/ to = from))
       ELSE ~is_dir(fs, to)
Moved(from, to, p) == IF IsPrefix(from, p) THEN join(to, diff_paths(p, from)) ELSE p
rename(fs, from, to) ==
    IF from = to THEN fs
    ELSE LET keptFiles == {f \in DOMAIN fs.files : f # to}
             newFiles == {Moved(from, to, f) : f \in keptFiles}
         IN  [dirs  |-> {Moved(from, to, d) : d \in fs.dirs},
              files |-> [x \in newFiles |->
                           fs.files[CHOOSE f \in keptFiles : Moved(from, to, f) = x]]]

\* walkdir::WalkDir::new(top): the directory itself, then everything below
\* it, depth first.  The order of a directory's entries is the file
\* system's; here it is ascending by name.  Walking a path that does not
\* exist yields one error entry (WalkOk is false).
WalkOk(fs, top) == exists(fs, top)
WalkDir(fs, top) == SortPaths({p \in AllPaths(fs) : IsPrefix(top, p)})

(***************************************************************************)
(* Names used by the program and by the modelled installation              *)
(***************************************************************************)
s_clim == <<".","c","l","i","m">>
s_archives == <<"a","r","c","h","i","v","e","s">>
s_extracted == <<"e","x","t","r","a","c","t","e","d">>
s_ModuleConfig == <<"M","o","d","u","l","e","C","o","n","f","i","g",".","x","m","l">>
s_esp == <<"e","s","p">>
s_esm == <<"e","s","m">>
s_esl == <<"e","s","l">>

\* dirs::home_dir() and the user's downloads folder
HomeDir == << <<"h","o","m","e">> >>
Downloads == << <<"d","l">> >>
\* The active game: its name and the Config that `clim init` saved for it.
GameName == <<"g">>
GameFolder == << <<"g","a","m","e">> >>
s_Data == <<"D","a","t","a">>
PluginsFile == << <<"p","l","u","g","i","n","s",".","t","x","t">> >>

(***************************************************************************)
(* src/library.rs: the directories of ~/.clim.  Each function creates the  *)
(* directory it names (and_create_dirs); EnsureDir is that effect.         *)
(***************************************************************************)
clim_dir == join(HomeDir, <<s_clim>>)
game_dir(game) == join(clim_dir, <<game>>)
archives_dir(game) == join(game_dir(game), <<s_archives>>)
extracted_dir(game, mod_name) == join(game_dir(game), <<s_extracted, mod_name>>)
EnsureDir(fs, p) == create_dir_all(fs, p)

(***************************************************************************)
(* The registry: Config.mods, an IndexMap from mod name to ManagedMod,     *)
(* as the sequence of its entries in load order.                           *)
(***************************************************************************)
\* ManagedMod::new
NewManagedMod(archive) ==
    [enabled |-> FALSE, extracted |-> None, archive |-> archive, parts |-> <<>>]

Keys(mods) == {mods[i].name : i \in 1..Len(mods)}
\* position of a key, 0 when absent
Position(mods, name) ==
    IF name \in Keys(mods) THEN CHOOSE i \in 1..Len(mods) : mods[i].name = name ELSE 0
RemoveAt(seq, i) == SubSeq(seq, 1, i - 1) \o SubSeq(seq, i + 1, Len(seq))
\* IndexMap::shift_remove
shift_remove(mods, name) ==
    IF Position(mods, name) = 0 THEN mods ELSE RemoveAt(mods, Position(mods, name))
\* IndexMap::insert: replaces the value of a present key in place, else appends
insert(mods, name, mm) ==
    IF Position(mods, name) = 0 THEN Append(mods, [name |-> name, mm |-> mm])
    ELSE [mods EXCEPT ![Position(mods, name)].mm = mm]

\* ManagedMod::part_paths
part_paths(mm) ==
    IF mm.parts = <<>>
    THEN (IF IsSome(mm.extracted) THEN <<mm.extracted[1]>> ELSE <<>>)
    ELSE mm.parts

\* install_dir that joins the data folder whenever one is configured.
install_dir_always_data(game_folder, data_folder, mod_has_data_folder) ==
    IF IsSome(data_folder)
    THEN join(game_folder, data_folder[1])
    ELSE game_folder

\* install_dir
install_dir(game_folder, data_folder, mod_has_data_folder) ==
    IF IsSome(data_folder) /\ ~mod_has_data_folder
    THEN join(game_folder, data_folder[1])
    ELSE game_folder

\* get_mod that prefers an entry whose lower-cased name equals the selector.
get_mod_exact_first(mods, name) ==
    LET lname == to_lowercase(name)
        same(i) == to_lowercase(mods[i].name) = lname
        hit(i) == contains(to_lowercase(mods[i].name), lname)
    IN  IF \E i \in 1..Len(mods) : same(i)
        THEN CHOOSE i \in 1..Len(mods) : same(i) /\ \A j \in 1..(i - 1) : ~same(j)
        ELSE IF \E i \in 1..Len(mods) : hit(i)
        THEN CHOOSE i \in 1..Len(mods) : hit(i) /\ \A j \in 1..(i - 1) : ~hit(j)
        ELSE 0

\* get_mod: the index of the first entry whose lower-cased name contains the
\* lower-cased selector; 0 stands for Err(UnknownMod).
get_mod(mods, name) ==
    LET lname == to_lowercase(name)
        hit(i) == contains(to_lowercase(mods[i].name), lname)
    IN  IF \E i \in 1..Len(mods) : hit(i)
        THEN CHOOSE i \in 1..Len(mods) : hit(i) /\ \A j \in 1..(i - 1) : ~hit(j)
        ELSE 0

\* contains_data_folder: [ok, val]; ok is false when the directory cannot be read.
contains_data_folder(fs, path, data_folder) ==
    IF IsSome(data_folder)
    THEN IF is_dir(fs, path)
         THEN [ok |-> TRUE,
               val |-> \E entry \in read_dir(fs, path) : ends_with(entry, data_folder[1])]
         ELSE [ok |-> FALSE, val |-> FALSE]
    ELSE [ok |-> TRUE, val |-> FALSE]

(***************************************************************************)
(* The archives of the downloads folder and what the extraction tool       *)
(* unpacks from each: the member files, as paths inside the archive.       *)
(***************************************************************************)
s_A_zip == <<"A",".","z","i","p">>
s_B_zip == <<"B",".","z","i","p">>
s_Ab_zip == <<"A","b",".","z","i","p">>
s_Ax_zip == <<"A","x",".","z","i","p">>
s_foo_esp == <<"f","o","o",".","e","s","p">>
s_bar_esp == <<"b","a","r",".","e","s","p">>
s_x_esp == <<"x",".","e","s","p">>
s_a_dds == <<"a",".","d","d","s">>
s_README == <<"R","E","A","D","M","E">>
s_fomod == <<"f","o","m","o","d">>

ArchiveFile(name) == [src |-> name, path |-> <<>>]
\* A.zip wraps a folder in a folder and holds a file without extension;
\* B.zip shares foo.esp with A.zip; Ab.zip is a multi-option installer whose
\* option folders are 0 and 1; Ax.zip wraps a folder in two folders and has
\* a file named Data beside them.
ArchiveMembers(name) ==
    IF name = s_A_zip
    THEN {<<s_foo_esp>>, <<s_README>>, << <<"W">>, <<"t","e","x">>, s_a_dds >>}
    ELSE IF name = s_B_zip
    THEN {<<s_bar_esp>>, <<s_foo_esp>>}
    ELSE IF name = s_Ab_zip
    THEN {<<s_fomod, s_ModuleConfig>>, << <<"0">>, s_foo_esp >>, << <<"1">>, s_Data, s_x_esp >>}
    ELSE IF name = s_Ax_zip
    THEN {<< <<"W">>, <<"V">>, s_x_esp >>, <<s_Data>>}
    ELSE {}

\* `7z x <archive> -o<dir> -spe` exiting with code 0: dir holds the archive's tree.
Unpack(fs, archive, dir) ==
    LET name == fs.files[archive].src
        members == ArchiveMembers(name)
        new == {join(dir, m) : m \in members}
    IN  [dirs  |-> fs.dirs \cup UNION {Prefixes(Front(f)) \ {<<>>} : f \in new},
         files |-> [f \in DOMAIN fs.files \cup new |->
                      IF f \in new THEN [src |-> name, path |-> diff_paths(f, dir)]
                      ELSE fs.files[f]]]

\* The loop of extract_mod that renames the entries of the inner folder into
\* the outer one; it stops at the first rename that fails.
RECURSIVE RenameEntries(_, _, _, _)
RenameEntries(fs, entries, narrowed, outer) ==
    IF entries = <<>> THEN [ok |-> TRUE, fs |-> fs]
    ELSE LET new_path == join(outer, diff_paths(Head(entries), narrowed))
         IN  IF can_rename(fs, Head(entries), new_path)
             THEN RenameEntries(rename(fs, Head(entries), new_path),
                                Tail(entries), narrowed, outer)
             ELSE [ok |-> FALSE, fs |-> fs]

\* "If there is exactly one entry in the folder and it is not a Data folder":
\* the hoist of extract_mod.
Hoist(fs, dir, data_folder) ==
    With({e \in read_dir(fs, dir) : is_dir(fs, e)}, LAMBDA inner :
      IF Cardinality(inner) = 1 /\ ~contains_data_folder(fs, dir, data_folder).val
      THEN With(CHOOSE e \in inner : TRUE, LAMBDA narrowed :
             With(RenameEntries(fs, SortPaths(read_dir(fs, narrowed)), narrowed, dir),
                  LAMBDA r :
                    IF r.ok /\ can_remove_dir(r.fs, narrowed)
                    THEN [ok |-> TRUE, fs |-> remove_dir(r.fs, narrowed)]
                    ELSE [ok |-> FALSE, fs |-> r.fs]))
      ELSE [ok |-> TRUE, fs |-> fs])

\* cfg!(unix): the build target
Unix == TRUE

\* "Capitalize all folders on unix": every directory the walk reaches is
\* renamed to its capitalised path, failures ignored.  The walk cannot
\* descend into a directory it has just renamed away.
RECURSIVE CapitalizeDirs(_, _, _)
CapitalizeDirs(fs, top, todo) ==
    IF todo = <<>> THEN fs
    ELSE LET d == Head(todo)
             to == capitalize_path(top, d)
         IN  With(IF can_rename(fs, d, to) THEN rename(fs, d, to) ELSE fs, LAMBDA fs1 :
               CapitalizeDirs(fs1, top,
                              (IF is_dir(fs1, d)
                               THEN SortPaths({e \in read_dir(fs1, d) : is_dir(fs1, e)})
                               ELSE <<>>) \o Tail(todo)))

\* extract_mod without the test of mm.extracted: every enabled mod is
\* extracted anew.
extract_mod_unguarded(game_name, data_folder, mod_name, mm, fs, tool_ok) ==
    IF mm.enabled
    THEN LET dir == extracted_dir(game_name, mod_name)
         IN  With(remove_dir_all(EnsureDir(fs, dir), dir), LAMBDA fs1 :
               IF ~(tool_ok /\ is_file(fs1, mm.archive))
               THEN [mm |-> mm, fs |-> fs1, err |-> "Extraction", ran |-> TRUE]
               ELSE With(Hoist(Unpack(fs1, mm.archive, dir), dir, data_folder), LAMBDA h :
                      IF ~h.ok
                      THEN [mm |-> mm, fs |-> h.fs, err |-> "IO", ran |-> TRUE]
                      ELSE [mm |-> [mm EXCEPT !.extracted = Some(dir)],
                            fs |-> IF Unix THEN CapitalizeDirs(h.fs, dir, <<dir>>) ELSE h.fs,
                            err |-> "Ok", ran |-> TRUE]))
    ELSE [mm |-> mm, fs |-> fs, err |-> "Ok", ran |-> FALSE]

\* extract_mod that records the extracted folder before it looks at the
\* tool's exit status.
extract_mod_records_early(game_name, data_folder, mod_name, mm, fs, tool_ok) ==
    IF mm.enabled /\ mm.extracted = None
    THEN LET dir == extracted_dir(game_name, mod_name)
             set == [mm EXCEPT !.extracted = Some(dir)]
         IN  With(remove_dir_all(EnsureDir(fs, dir), dir), LAMBDA fs1 :
               IF ~(tool_ok /\ is_file(fs1, mm.archive))
               THEN [mm |-> set, fs |-> fs1, err |-> "Extraction", ran |-> TRUE]
               ELSE With(Hoist(Unpack(fs1, mm.archive, dir), dir, data_folder), LAMBDA h :
                      IF ~h.ok
                      THEN [mm |-> set, fs |-> h.fs, err |-> "IO", ran |-> TRUE]
                      ELSE [mm |-> set,
                            fs |-> IF Unix THEN CapitalizeDirs(h.fs, dir, <<dir>>) ELSE h.fs,
                            err |-> "Ok", ran |-> TRUE]))
    ELSE [mm |-> mm, fs |-> fs, err |-> "Ok", ran |-> FALSE]

\* Game::extract_mod.  tool_ok is the extraction tool's exit status for this
\* invocation.  `ran` tells whether the tool was invoked.
extract_mod(game_name, data_folder, mod_name, mm, fs, tool_ok) ==
    IF mm.enabled /\ mm.extracted = None
    THEN LET dir == extracted_dir(game_name, mod_name)
         IN  With(remove_dir_all(EnsureDir(fs, dir), dir), LAMBDA fs1 :
               IF ~(tool_ok /\ is_file(fs1, mm.archive))
               THEN [mm |-> mm, fs |-> fs1, err |-> "Extraction", ran |-> TRUE]
               ELSE With(Hoist(Unpack(fs1, mm.archive, dir), dir, data_folder), LAMBDA h :
                      IF ~h.ok
                      THEN [mm |-> mm, fs |-> h.fs, err |-> "IO", ran |-> TRUE]
                      ELSE [mm |-> [mm EXCEPT !.extracted = Some(dir)],
                            fs |-> IF Unix THEN CapitalizeDirs(h.fs, dir, <<dir>>) ELSE h.fs,
                            err |-> "Ok", ran |-> TRUE]))
    ELSE [mm |-> mm, fs |-> fs, err |-> "Ok", ran |-> FALSE]

(***************************************************************************)
(* src/utils.rs                                                            *)
(***************************************************************************)
\* The "Delete empty folders" loop of remove_path.
RECURSIVE RemoveEmptyParents(_, _, _)
RemoveEmptyParents(fs, top, name) ==
    IF parent(name) = None THEN fs
    ELSE LET par == parent(name)[1]
         IN  IF Len(par) = 0 THEN fs
             ELSE IF ~can_remove_dir(fs, join(top, par)) THEN fs
             ELSE RemoveEmptyParents(remove_dir(fs, join(top, par)), top, par)

\* remove_path that removes the folders above the file whether or not they
\* are empty.
remove_path_to_top(fs, top, name) ==
    LET path == join(top, name)
        fs1 == IF is_file(fs, path) THEN remove_file(fs, path) ELSE fs
    IN  IF Len(name) > 1 THEN remove_dir_all(fs1, join(top, <<name[1]>>)) ELSE fs1

\* utils::remove_path
remove_path(fs, top, name) ==
    LET path == join(top, name)
    IN  RemoveEmptyParents(IF is_file(fs, path) THEN remove_file(fs, path) ELSE fs,
                           top, name)

\* utils::create_dirs: [ok, fs]
create_dirs(fs, path) ==
    LET target == IF IsSome(extension(Last(path))) THEN parent(path)[1] ELSE path
    IN  IF can_create_dir_all(fs, target)
        THEN [ok |-> TRUE, fs |-> create_dir_all(fs, target)]
        ELSE [ok |-> FALSE, fs |-> fs]

(***************************************************************************)
(* Undeploy                                                                *)
(***************************************************************************)
\* The inner loop of undeploy_mod: remove_path for every entry of the walk.
RECURSIVE RemoveEntries(_, _, _, _)
RemoveEntries(fs, entries, install_src, dir) ==
    IF entries = <<>> THEN fs
    ELSE RemoveEntries(remove_path(fs, dir, diff_paths(Head(entries), install_src)),
                       Tail(entries), install_src, dir)

\* The loop of Game::undeploy_mod over mm.part_paths(): [fs, err]
RECURSIVE UndeployParts(_, _, _, _)
UndeployParts(fs, game_folder, data_folder, srcs) ==
    IF srcs = <<>> THEN [fs |-> fs, err |-> "Ok"]
    ELSE LET install_src == Head(srcs)
         IN  With(contains_data_folder(fs, install_src, data_folder), LAMBDA cdf :
               IF ~cdf.ok
               THEN UndeployParts(fs, game_folder, data_folder, Tail(srcs))
               ELSE IF ~WalkOk(fs, install_src)
               THEN [fs |-> fs, err |-> "WalkDir"]
               ELSE UndeployParts(
                      RemoveEntries(fs, WalkDir(fs, install_src), install_src,
                                    install_dir(game_folder, data_folder, cdf.val)),
                      game_folder, data_folder, Tail(srcs)))

\* undeploy_mod that, for a mod with parts, also removes every file of the
\* folder Data of the game.
undeploy_mod_whole_folder(game_folder, data_folder, mm, fs) ==
    With(UndeployParts(fs, game_folder, data_folder, part_paths(mm)), LAMBDA r :
      IF part_paths(mm) = <<>> THEN r
      ELSE [fs |-> [r.fs EXCEPT !.files =
                      Restrict(r.fs.files,
                               {p \in DOMAIN r.fs.files :
                                  ~IsPrefix(join(game_folder, <<s_Data>>), p)})],
            err |-> r.err])

\* undeploy_mod that passes over a disabled mod.
undeploy_mod_enabled(game_folder, data_folder, mm, fs) ==
    IF mm.enabled THEN UndeployParts(fs, game_folder, data_folder, part_paths(mm))
    ELSE [fs |-> fs, err |-> "Ok"]

\* Game::undeploy_mod
undeploy_mod(game_folder, data_folder, mm, fs) ==
    UndeployParts(fs, game_folder, data_folder, part_paths(mm))

\* Game::undeploy, from entry i of the registry on: [fs, err]
RECURSIVE UndeployFrom(_, _, _, _, _)
UndeployFrom(mods, i, game_folder, data_folder, fs) ==
    IF i > Len(mods) THEN [fs |-> fs, err |-> "Ok"]
    ELSE With(undeploy_mod(game_folder, data_folder, mods[i].mm, fs), LAMBDA r :
           IF r.err # "Ok" THEN r
           ELSE UndeployFrom(mods, i + 1, game_folder, data_folder, r.fs))

undeploy(mods, game_folder, data_folder, fs) ==
    UndeployFrom(mods, 1, game_folder, data_folder, fs)

(***************************************************************************)
(* src/fomod.rs: pseudo_fomod.  `yes` is the set of folders the user       *)
(* answers "yes" for when asked.                                           *)
(***************************************************************************)
\* "Find main folder": descend while the folder has exactly one entry.
RECURSIVE MainFolder(_, _)
MainFolder(fs, path) ==
    IF ~is_dir(fs, path) THEN [ok |-> FALSE, path |-> path]
    ELSE IF Cardinality(read_dir(fs, path)) = 1
    THEN MainFolder(fs, CHOOSE e \in read_dir(fs, path) : TRUE)
    ELSE [ok |-> TRUE, path |-> path]

starts_with_num(name) == name # <<>> /\ is_digit(name[1])

\* The folders pseudo_fomod asks about, in the order it asks.
FomodCandidates(fs, top) ==
    With(MainFolder(fs, top), LAMBDA m :
      IF ~m.ok THEN <<>>
      ELSE SortPaths({e \in read_dir(fs, m.path) :
                         is_dir(fs, e) /\ starts_with_num(Last(e))}))

SelectSeq2(seq, S) == SelectSeq(seq, LAMBDA x : x \in S)

\* pseudo_fomod: [ok, paths]
pseudo_fomod(fs, top, yes) ==
    [ok |-> MainFolder(fs, top).ok,
     paths |-> SelectSeq2(FomodCandidates(fs, top), yes)]

(***************************************************************************)
(* Install (Game::deploy)                                                  *)
(***************************************************************************)
\* DeploymentMethod::default(), which `clim init` saves; no command changes it.
Deployment == "Hardlink"

\* "For each file": create_dirs, then the link, whose failure is ignored.
RECURSIVE InstallEntries(_, _, _, _)
InstallEntries(fs, entries, install_src, dir) ==
    IF entries = <<>> THEN [fs |-> fs, err |-> "Ok"]
    ELSE IF ~is_file(fs, Head(entries))
    THEN InstallEntries(fs, Tail(entries), install_src, dir)
    ELSE LET rel == diff_paths(Head(entries), install_src)
             extracted_path == join(install_src, rel)
             install_path == join(dir, rel)
         IN  With(create_dirs(fs, install_path), LAMBDA c :
               IF ~c.ok THEN [fs |-> fs, err |-> "IO"]
               ELSE InstallEntries(
                      IF Deployment = "Hardlink"
                         /\ can_hard_link(c.fs, extracted_path, install_path)
                      THEN hard_link(c.fs, extracted_path, install_path)
                      ELSE c.fs,
                      Tail(entries), install_src, dir))

\* "For each folder" of install_folders: [fs, err]
RECURSIVE InstallFolders(_, _, _, _)
InstallFolders(fs, game_folder, data_folder, srcs) ==
    IF srcs = <<>> THEN [fs |-> fs, err |-> "Ok"]
    ELSE LET install_src == Head(srcs)
         IN  With(contains_data_folder(fs, install_src, data_folder), LAMBDA cdf :
               IF ~cdf.ok THEN [fs |-> fs, err |-> "IO"]
               ELSE IF ~WalkOk(fs, install_src) THEN [fs |-> fs, err |-> "WalkDir"]
               ELSE With(InstallEntries(fs, WalkDir(fs, install_src), install_src,
                                        install_dir(game_folder, data_folder, cdf.val)),
                         LAMBDA r :
                           IF r.err # "Ok" THEN r
                           ELSE InstallFolders(r.fs, game_folder, data_folder,
                                               Tail(srcs))))

\* "Search for a Fomod config": some entry below the extracted folder is
\* named ModuleConfig.xml.
HasFomodConfig(fs, extracted) ==
    \E p \in AllPaths(fs) : IsPrefix(extracted, p) /\ p # <<>> /\ Last(p) = s_ModuleConfig

\* The body of the loop of Game::deploy without the test of mm.enabled.
deploy_mod_any(game_folder, data_folder, mm, fs, yes) ==
    IF IsSome(mm.extracted)
    THEN LET extracted == mm.extracted[1]
         IN  IF mm.parts # <<>>
             THEN With(InstallFolders(fs, game_folder, data_folder, mm.parts), LAMBDA r :
                    [mm |-> mm, fs |-> r.fs, err |-> r.err])
             ELSE IF HasFomodConfig(fs, extracted)
             THEN With(pseudo_fomod(fs, extracted, yes), LAMBDA pf :
                    IF ~pf.ok THEN [mm |-> mm, fs |-> fs, err |-> "IO"]
                    ELSE With(InstallFolders(fs, game_folder, data_folder, pf.paths),
                              LAMBDA r : [mm |-> [mm EXCEPT !.parts = pf.paths],
                                          fs |-> r.fs, err |-> r.err]))
             ELSE With(InstallFolders(fs, game_folder, data_folder, <<extracted>>),
                       LAMBDA r : [mm |-> mm, fs |-> r.fs, err |-> r.err])
    ELSE [mm |-> mm, fs |-> fs, err |-> "Ok"]

\* The body of the loop of Game::deploy for one mod: [mm, fs, err]
deploy_mod(game_folder, data_folder, mm, fs, yes) ==
    IF IsSome(mm.extracted) /\ mm.enabled
    THEN LET extracted == mm.extracted[1]
         IN  IF mm.parts # <<>>
             THEN With(InstallFolders(fs, game_folder, data_folder, mm.parts), LAMBDA r :
                    [mm |-> mm, fs |-> r.fs, err |-> r.err])
             ELSE IF HasFomodConfig(fs, extracted)
             THEN With(pseudo_fomod(fs, extracted, yes), LAMBDA pf :
                    IF ~pf.ok THEN [mm |-> mm, fs |-> fs, err |-> "IO"]
                    ELSE With(InstallFolders(fs, game_folder, data_folder, pf.paths),
                              LAMBDA r : [mm |-> [mm EXCEPT !.parts = pf.paths],
                                          fs |-> r.fs, err |-> r.err]))
             ELSE With(InstallFolders(fs, game_folder, data_folder, <<extracted>>),
                       LAMBDA r : [mm |-> mm, fs |-> r.fs, err |-> r.err])
    ELSE [mm |-> mm, fs |-> fs, err |-> "Ok"]

\* Game::deploy from entry i on: [mods, fs, err]
RECURSIVE DeployFrom(_, _, _, _, _, _)
DeployFrom(mods, i, game_folder, data_folder, fs, yes) ==
    IF i > Len(mods) THEN [mods |-> mods, fs |-> fs, err |-> "Ok"]
    ELSE With(deploy_mod(game_folder, data_folder, mods[i].mm, fs, yes), LAMBDA r :
           IF r.err # "Ok"
           THEN [mods |-> [mods EXCEPT ![i].mm = r.mm], fs |-> r.fs, err |-> r.err]
           ELSE DeployFrom([mods EXCEPT ![i].mm = r.mm], i + 1, game_folder,
                           data_folder, r.fs, yes))

deploy(mods, game_folder, data_folder, fs, yes) ==
    DeployFrom(mods, 1, game_folder, data_folder, fs, yes)

(***************************************************************************)
(* Plugin list                                                             *)
(***************************************************************************)
PluginExtensions == {s_esp, s_esm, s_esl}

\* The file names with a plugin extension among the entries of a walk.
PluginNames(entries) ==
    LET is_plugin(p) == p # <<>> /\ IsSome(extension(Last(p)))
                          /\ extension(Last(p))[1] \in PluginExtensions
        kept == SelectSeq(entries, is_plugin)
    IN  [i \in 1..Len(kept) |-> Last(kept[i])]

\* flat_map over the part paths of one mod; a walk that fails yields nothing.
RECURSIVE PartsPlugins(_, _)
PartsPlugins(fs, srcs) ==
    IF srcs = <<>> THEN <<>>
    ELSE (IF WalkOk(fs, Head(srcs)) THEN PluginNames(WalkDir(fs, Head(srcs))) ELSE <<>>)
         \o PartsPlugins(fs, Tail(srcs))

\* flat_map over the enabled mods, in registry order
RECURSIVE ModsPlugins(_, _, _)
ModsPlugins(mods, i, fs) ==
    IF i > Len(mods) THEN <<>>
    ELSE (IF mods[i].mm.enabled THEN PartsPlugins(fs, part_paths(mods[i].mm)) ELSE <<>>)
         \o ModsPlugins(mods, i + 1, fs)

\* Itertools::dedup: drops an element equal to the one just before it.
dedup(seq) ==
    LET keep == {i \in 1..Len(seq) : i = 1 \/ seq[i] # seq[i - 1]}
        RECURSIVE Build(_)
        Build(i) == IF i > Len(seq) THEN <<>>
                    ELSE (IF i \in keep THEN <<seq[i]>> ELSE <<>>) \o Build(i + 1)
    IN  Build(1)

\* Game::plugins
plugins(mods, fs) == dedup(ModsPlugins(mods, 1, fs))

\* Game::write_plugins: the lines written to the plugins file, when one is set.
write_plugins(plugins_file, mods, fs, old) ==
    IF IsSome(plugins_file)
    THEN With(plugins(mods, fs), LAMBDA names :
           Some([i \in 1..Len(names) |-> <<"*">> \o names[i]]))
    ELSE old

(***************************************************************************)
(* Registry commands of impl Game: each yields the registry, the file      *)
(* system and "Ok" or the error returned.                                  *)
(***************************************************************************)
\* Game::add, from path i of `paths` on
RECURSIVE AddFrom(_, _, _, _, _, _, _)
AddFrom(mods, fs, game, paths, i, mv, enable) ==
    IF i > Len(paths) THEN [mods |-> mods, fs |-> fs, err |-> "Ok"]
    ELSE LET path == paths[i]
             file_name == Last(path)
             download_copy == join(archives_dir(game), <<file_name>>)
             mod_name == file_stem(file_name)
             old == IF Position(mods, mod_name) = 0 THEN NewManagedMod(download_copy)
                    ELSE mods[Position(mods, mod_name)].mm
         IN  With(EnsureDir(fs, archives_dir(game)), LAMBDA fs1 :
               IF ~is_file(fs1, path) THEN [mods |-> mods, fs |-> fs1, err |-> "IO"]
               ELSE AddFrom(insert(mods, mod_name, [old EXCEPT !.enabled = enable]),
                            IF mv THEN rename(fs1, path, download_copy)
                            ELSE copy(fs1, path, download_copy),
                            game, paths, i + 1, mv, enable))

\* Game::add with `mods.insert(mod_name, ManagedMod::new(download_copy))` in
\* place of `entry(mod_name).or_insert_with(..)`: a registered mod named by
\* `paths` is replaced by a fresh entry.
add_fresh_entry(mods, fs, game, paths, mv, enable) ==
    With(AddFrom(mods, fs, game, paths, 1, mv, enable), LAMBDA r :
      [r EXCEPT !.mods =
         [i \in 1..Len(r.mods) |->
            IF r.mods[i].name \in {file_stem(Last(paths[k])) : k \in 1..Len(paths)}
            THEN [r.mods[i] EXCEPT !.mm.extracted = None, !.mm.parts = <<>>]
            ELSE r.mods[i]]])

add(mods, fs, game, paths, mv, enable) == AddFrom(mods, fs, game, paths, 1, mv, enable)

\* Game::enable_mod: [mm, fs, err, ran]
enable_mod(data_folder, mod_name, mm, fs, tool_ok) ==
    With(extract_mod(mod_name, data_folder, mod_name, mm, fs, tool_ok), LAMBDA x :
      IF x.err # "Ok" THEN [mm |-> x.mm, fs |-> x.fs, err |-> x.err, ran |-> x.ran]
      ELSE [mm |-> [x.mm EXCEPT !.enabled = TRUE], fs |-> x.fs, err |-> "Ok",
            ran |-> x.ran])

\* Game::disable_mod
disable_mod(mm) == [mm EXCEPT !.enabled = FALSE]

\* The mods the extraction tool was invoked for, in the order of the
\* invocations: `ran` with mod_name after it when this invocation ran it.
Invoked(ran, mod_name, r) == IF r.ran THEN Append(ran, mod_name) ELSE ran

\* Game::enable.  `bad` holds the mods for which the extraction tool fails.
enable(mods, fs, data_folder, name, bad) ==
    With(get_mod(mods, name), LAMBDA i :
      IF i = 0 THEN [mods |-> mods, fs |-> fs, err |-> "UnknownMod", ran |-> <<>>]
      ELSE With(enable_mod(data_folder, mods[i].name, mods[i].mm, fs,
                           mods[i].name \notin bad),
                LAMBDA r : [mods |-> [mods EXCEPT ![i].mm = r.mm],
                            fs |-> r.fs, err |-> r.err,
                            ran |-> Invoked(<<>>, mods[i].name, r)]))

\* Game::enable_all, from entry i on
RECURSIVE EnableFrom(_, _, _, _, _, _)
EnableFrom(mods, i, fs, data_folder, bad, ran) ==
    IF i > Len(mods) THEN [mods |-> mods, fs |-> fs, err |-> "Ok", ran |-> ran]
    ELSE With(enable_mod(data_folder, mods[i].name, mods[i].mm, fs,
                         mods[i].name \notin bad),
              LAMBDA r :
                IF r.err # "Ok"
                THEN [mods |-> [mods EXCEPT ![i].mm = r.mm], fs |-> r.fs, err |-> r.err,
                      ran |-> Invoked(ran, mods[i].name, r)]
                ELSE EnableFrom([mods EXCEPT ![i].mm = r.mm], i + 1, r.fs,
                                data_folder, bad, Invoked(ran, mods[i].name, r)))

enable_all(mods, fs, data_folder, bad) == EnableFrom(mods, 1, fs, data_folder, bad, <<>>)

\* Game::disable
disable(mods, name) ==
    With(get_mod(mods, name), LAMBDA i :
      IF i = 0 THEN [mods |-> mods, err |-> "UnknownMod"]
      ELSE [mods |-> [mods EXCEPT ![i].mm = disable_mod(mods[i].mm)], err |-> "Ok"])

\* Game::disable_all
disable_all(mods) ==
    [mods |-> [i \in 1..Len(mods) |-> [mods[i] EXCEPT !.mm = disable_mod(mods[i].mm)]],
     err |-> "Ok"]

\* Game::extract, from entry i on: [mods, fs, err, failed, ran]
RECURSIVE ExtractFrom(_, _, _, _, _, _, _)
ExtractFrom(mods, i, game, data_folder, fs, bad, ran) ==
    IF i > Len(mods)
    THEN [mods |-> mods, fs |-> fs, err |-> "Ok", failed |-> None, ran |-> ran]
    ELSE With(extract_mod(game, data_folder, mods[i].name, mods[i].mm, fs,
                          mods[i].name \notin bad),
              LAMBDA r :
                With(Invoked(ran, mods[i].name, r), LAMBDA ran1 :
                  IF r.err # "Ok"
                  THEN [mods |-> [mods EXCEPT ![i].mm = r.mm], fs |-> r.fs, err |-> r.err,
                        failed |-> Some(mods[i].name), ran |-> ran1]
                  ELSE ExtractFrom([mods EXCEPT ![i].mm = r.mm], i + 1, game,
                                   data_folder, r.fs, bad, ran1)))

extract(mods, game, data_folder, fs, bad) ==
    ExtractFrom(mods, 1, game, data_folder, fs, bad, <<>>)

\* Game::uninstall_mod: [mm, fs, err]
uninstall_mod(game_folder, data_folder, mm, fs, delete_archives) ==
    LET mm1 == disable_mod(mm)
        mm2 == [mm1 EXCEPT !.extracted = None]
    IN  With(undeploy_mod(game_folder, data_folder, mm1, fs), LAMBDA u :
          IF u.err # "Ok" THEN [mm |-> mm1, fs |-> u.fs, err |-> u.err]
          ELSE IF delete_archives /\ ~is_file(u.fs, mm.archive)
          THEN [mm |-> mm1, fs |-> u.fs, err |-> "IO"]
          ELSE With(IF delete_archives THEN remove_file(u.fs, mm.archive) ELSE u.fs,
                    LAMBDA fs2 :
                      IF IsSome(mm.extracted) /\ ~is_dir(fs2, mm.extracted[1])
                      THEN [mm |-> mm2, fs |-> fs2, err |-> "IO"]
                      ELSE IF IsSome(mm.extracted)
                      THEN [mm |-> mm2, fs |-> remove_dir_all(fs2, mm.extracted[1]),
                            err |-> "Ok"]
                      ELSE [mm |-> mm2, fs |-> fs2, err |-> "Ok"]))

\* IndexMap::remove, which is swap_remove: the last entry takes the place of
\* the removed one.
swap_remove(mods, name) ==
    LET i == Position(mods, name)
    IN  IF i = 0 THEN mods
        ELSE IF i = Len(mods) THEN Front(mods)
        ELSE [Front(mods) EXCEPT ![i] = mods[Len(mods)]]

\* Game::uninstall that drops the entry whether or not the archive is deleted.
uninstall_always_removes(mods, fs, game_folder, data_folder, name, delete_archives) ==
    With(get_mod(mods, name), LAMBDA i :
      IF i = 0 THEN [mods |-> mods, fs |-> fs, err |-> "UnknownMod"]
      ELSE With(uninstall_mod(game_folder, data_folder, mods[i].mm, fs, delete_archives),
                LAMBDA r :
                  With([mods EXCEPT ![i].mm = r.mm], LAMBDA mods1 :
                    IF r.err # "Ok" THEN [mods |-> mods1, fs |-> r.fs, err |-> r.err]
                    ELSE [mods |-> swap_remove(mods1, mods[i].name),
                          fs |-> r.fs, err |-> "Ok"])))

\* Game::uninstall
uninstall(mods, fs, game_folder, data_folder, name, delete_archives) ==
    With(get_mod(mods, name), LAMBDA i :
      IF i = 0 THEN [mods |-> mods, fs |-> fs, err |-> "UnknownMod"]
      ELSE With(uninstall_mod(game_folder, data_folder, mods[i].mm, fs, delete_archives),
                LAMBDA r :
                  With([mods EXCEPT ![i].mm = r.mm], LAMBDA mods1 :
                    IF r.err # "Ok" THEN [mods |-> mods1, fs |-> r.fs, err |-> r.err]
                    ELSE [mods |-> IF delete_archives
                                   THEN swap_remove(mods1, mods[i].name) ELSE mods1,
                          fs |-> r.fs, err |-> "Ok"])))

\* Game::uninstall_all, from entry i on
RECURSIVE UninstallFrom(_, _, _, _, _, _)
UninstallFrom(mods, i, fs, game_folder, data_folder, delete_archives) ==
    IF i > Len(mods)
    THEN [mods |-> IF delete_archives THEN <<>> ELSE mods, fs |-> fs, err |-> "Ok"]
    ELSE With(uninstall_mod(game_folder, data_folder, mods[i].mm, fs, delete_archives),
              LAMBDA r :
                IF r.err # "Ok"
                THEN [mods |-> [mods EXCEPT ![i].mm = r.mm], fs |-> r.fs, err |-> r.err]
                ELSE UninstallFrom([mods EXCEPT ![i].mm = r.mm], i + 1, r.fs,
                                   game_folder, data_folder, delete_archives))

uninstall_all(mods, fs, game_folder, data_folder, delete_archives) ==
    UninstallFrom(mods, 1, fs, game_folder, data_folder, delete_archives)

(***************************************************************************)
(* Game::move_mod.  `to` is the MoveSubcommand: [kind, name].              *)
(***************************************************************************)
\* relative! with the index of the other entry taken before the moved one
\* is removed.
relative_stale_index(mods, moved_name, other, addn) ==
    With(get_mod(mods, other), LAMBDA o :
      IF o = 0 THEN [mods |-> mods, err |-> "UnknownMod"]
      ELSE IF moved_name = mods[o].name THEN [mods |-> mods, err |-> "SelfRelativeMove"]
      ELSE LET moved_mm == mods[Position(mods, moved_name)].mm
               rest == shift_remove(mods, moved_name)
               other_index == o - 1
               \* Iterator::take yields at most what there is
               taken == IF other_index + addn > Len(rest) THEN Len(rest)
                        ELSE other_index + addn
           IN  [mods |-> insert(SubSeq(rest, 1, taken), moved_name, moved_mm)
                           \o SubSeq(rest, taken + 1, Len(rest)),
                err |-> "Ok"])

\* relative! with the moved entry removed before the other one is looked up.
relative_remove_first(mods, moved_name, other, addn) ==
    LET moved_mm == mods[Position(mods, moved_name)].mm
        rest == shift_remove(mods, moved_name)
    IN  With(get_mod(rest, other), LAMBDA o :
          IF o = 0 THEN [mods |-> rest, err |-> "UnknownMod"]
          ELSE [mods |-> insert(SubSeq(rest, 1, o - 1 + addn), moved_name, moved_mm)
                           \o SubSeq(rest, o + addn, Len(rest)),
                err |-> "Ok"])

\* The relative! macro: `addn` is 0 for Above and 1 for Below.
relative(mods, moved_name, other, addn) ==
    With(get_mod(mods, other), LAMBDA o :
      IF o = 0 THEN [mods |-> mods, err |-> "UnknownMod"]
      ELSE IF moved_name = mods[o].name THEN [mods |-> mods, err |-> "SelfRelativeMove"]
      ELSE LET other_name == mods[o].name
               moved_mm == mods[Position(mods, moved_name)].mm
           IN  With(shift_remove(mods, moved_name), LAMBDA rest :
                 With(Position(rest, other_name) - 1, LAMBDA other_index :
                   [mods |-> insert(SubSeq(rest, 1, other_index + addn),
                                    moved_name, moved_mm)
                               \o SubSeq(rest, other_index + addn + 1, Len(rest)),
                    err |-> "Ok"])))

\* move_mod whose Bottom arm inserts without removing first: IndexMap::insert
\* of a present key leaves it in place.
move_mod_bottom_in_place(mods, moved, to) ==
    With(get_mod(mods, moved), LAMBDA m :
      IF m = 0 THEN [mods |-> mods, err |-> "UnknownMod"]
      ELSE IF to.kind = "Above" THEN relative(mods, mods[m].name, to.name, 0)
      ELSE IF to.kind = "Below" THEN relative(mods, mods[m].name, to.name, 1)
      ELSE IF to.kind = "Top"
      THEN [mods |-> insert(<<>>, mods[m].name, mods[m].mm)
                       \o shift_remove(mods, mods[m].name),
            err |-> "Ok"]
      ELSE [mods |-> insert(mods, mods[m].name, mods[m].mm), err |-> "Ok"])

\* move_mod whose Top and Bottom arms take the moved entry out with
\* swap_remove, which puts the last entry in its place.
move_mod_swap_remove(mods, moved, to) ==
    With(get_mod(mods, moved), LAMBDA m :
      IF m = 0 THEN [mods |-> mods, err |-> "UnknownMod"]
      ELSE LET moved_name == mods[m].name
               moved_mm == mods[m].mm
           IN  IF to.kind = "Above" THEN relative(mods, moved_name, to.name, 0)
               ELSE IF to.kind = "Below" THEN relative(mods, moved_name, to.name, 1)
               ELSE With(swap_remove(mods, moved_name), LAMBDA rest :
                      IF to.kind = "Top"
                      THEN [mods |-> insert(<<>>, moved_name, moved_mm) \o rest,
                            err |-> "Ok"]
                      ELSE [mods |-> insert(rest, moved_name, moved_mm), err |-> "Ok"]))

\* Game::move_mod
move_mod(mods, moved, to) ==
    With(get_mod(mods, moved), LAMBDA m :
      IF m = 0 THEN [mods |-> mods, err |-> "UnknownMod"]
      ELSE LET moved_name == mods[m].name
               moved_mm == mods[m].mm
           IN  IF to.kind = "Above" THEN relative(mods, moved_name, to.name, 0)
               ELSE IF to.kind = "Below" THEN relative(mods, moved_name, to.name, 1)
               ELSE With(shift_remove(mods, moved_name), LAMBDA rest :
                      IF to.kind = "Top"
                      THEN [mods |-> insert(<<>>, moved_name, moved_mm) \o rest,
                            err |-> "Ok"]
                      ELSE [mods |-> insert(rest, moved_name, moved_mm), err |-> "Ok"]))

(***************************************************************************)
(* src/main.rs: the loops of run() over the names of a command             *)
(***************************************************************************)
\* App::Enable { names }: for name in names { game.enable(&name)? }
RECURSIVE EnableNames(_, _, _, _, _, _, _)
EnableNames(mods, fs, data_folder, names, i, bad, ran) ==
    IF i > Len(names) THEN [mods |-> mods, fs |-> fs, err |-> "Ok", ran |-> ran]
    ELSE With(enable(mods, fs, data_folder, names[i], bad), LAMBDA r :
           IF r.err # "Ok" THEN [r EXCEPT !.ran = ran \o r.ran]
           ELSE EnableNames(r.mods, r.fs, data_folder, names, i + 1, bad, ran \o r.ran))

\* App::Disable { names }: for name in names { game.disable(&name)? }
RECURSIVE DisableNames(_, _, _)
DisableNames(mods, names, i) ==
    IF i > Len(names) THEN [mods |-> mods, err |-> "Ok"]
    ELSE With(disable(mods, names[i]), LAMBDA r :
           IF r.err # "Ok" THEN r ELSE DisableNames(r.mods, names, i + 1))

\* App::Uninstall { names }: for name in names { game.uninstall(&name, delete_archives)? }
RECURSIVE UninstallNames(_, _, _, _, _, _, _)
UninstallNames(mods, fs, game_folder, data_folder, names, i, delete_archives) ==
    IF i > Len(names) THEN [mods |-> mods, fs |-> fs, err |-> "Ok"]
    ELSE With(uninstall(mods, fs, game_folder, data_folder, names[i], delete_archives),
              LAMBDA r :
                IF r.err # "Ok" THEN r
                ELSE UninstallNames(r.mods, r.fs, game_folder, data_folder, names, i + 1,
                                    delete_archives))

(***************************************************************************)
(* Bounds and inputs of the commands                                       *)
(***************************************************************************)
\* The longest list of names or archives given to one command.
MaxNames == 2

\* Selectors typed by the user: "a" matches A and Ab, "b" matches B and Ab,
\* "ab" matches Ab, "x" matches nothing.
Selectors == {<<"a">>, <<"b">>, <<"a","b">>, <<"x">>}
Lists(S) == UNION {[1..n -> S] : n \in 1..MaxNames}
\* The archives that lie in the downloads folder.
DownloadPaths(f) == {p \in DOMAIN f.files : Front(p) = Downloads}
MoveTargets ==
    [kind : {"Above", "Below"}, name : Selectors]
      \cup [kind : {"Top", "Bottom"}, name : {<<>>}]

\* The mods for which a command would invoke the extraction tool.
Unextracted(mods) ==
    {mods[i].name : i \in {j \in 1..Len(mods) :
                             mods[j].mm.enabled /\ mods[j].mm.extracted = None}}


(***************************************************************************)
(* State                                                                   *)
(***************************************************************************)
VARIABLES
    config,       \* the Config of the active game, less its mods
    saved,        \* the registry as persisted in clim.toml
    fs,           \* the file system
    pluginsFile,  \* the lines of the plugins file, None before it is written
    pc,           \* 0: no command runs; k > 0: `clim go` is before its k-th call
    mods,         \* the registry in the memory of the running `clim go`
    last,         \* the last command that ended, and its result
    phases,       \* the calls the running or just ended `clim go` has made, in order
    before,       \* what the running or just ended `clim go` found: the game folder,
                  \* the registry, and whether a successful `clim go` came just before
    watcher,      \* the add the callback of `clim watch` is in, None when in none
    tool,         \* the mods the extraction tool was invoked for by the command that
                  \* ended last or by the running `clim go`, one entry per invocation
    gc            \* the GlobalConfig as persisted: the active game and the known games

vars == <<config, saved, fs, pluginsFile, pc, mods, last, phases, before, watcher, tool, gc>>

VanillaFile == [src |-> <<"g","a","m","e">>, path |-> <<s_Data, s_foo_esp>>]

\* The game folder's part of the file system.
GameTree(f) ==
    [dirs |-> {d \in f.dirs : IsPrefix(GameFolder, d)},
     files |-> Restrict(f.files, {p \in DOMAIN f.files : IsPrefix(GameFolder, p)})]

Result(cmd, err) == [cmd |-> cmd, err |-> err, mod |-> None, arg |-> None]

\* The state after `clim init g game [--data Data] --plugins plugins.txt`:
\* an empty registry, the game's own files, and the given archives in the
\* downloads folder.  The parent directories that library.rs creates on
\* demand and that no command removes exist already.
InitWith(archives, data_folders) ==
    /\ config \in [game_folder : {GameFolder},
                   data_folder : data_folders,
                   plugins_file : {Some(PluginsFile)}]
    /\ saved = <<>>
    /\ LET downloads == {join(Downloads, <<a>>) : a \in archives}
           vanilla == join(GameFolder, <<s_Data, s_foo_esp>>)
       IN  fs = [dirs |-> {Downloads, GameFolder, join(GameFolder, <<s_Data>>)}
                            \cup (Prefixes(archives_dir(GameName)) \ {<<>>})
                            \cup {Front(extracted_dir(GameName, file_stem(a))) : a \in archives}
                            \cup UNION {Prefixes(Front(extracted_dir(file_stem(a), file_stem(a))))
                                          \ {<<>>} : a \in archives},
                 files |-> [p \in downloads \cup {vanilla} |->
                              IF p = vanilla THEN VanillaFile ELSE ArchiveFile(Last(p))]]
    /\ pluginsFile = None
    /\ pc = 0
    /\ mods = <<>>
    /\ last = Result("init", "Ok")
    /\ phases = <<>>
    /\ before = None
    /\ watcher = None
    /\ tool = <<>>
    /\ gc = [active_game |-> Some(GameName), games |-> {GameName}]

Init == InitWith({s_A_zip, s_B_zip}, {Some(<<s_Data>>)})

(***************************************************************************)
(* Commands that open the active game, act on it and drop it, which saves  *)
(* the registry (impl Drop for Game), whatever the command returned.       *)
(***************************************************************************)
\* GlobalConfig::active_game of game g: no command runs and g is the active
\* game.  The registry of another game is not part of the state.
Idle == pc = 0 /\ gc.active_game = Some(GameName)
NoGo == /\ phases' = <<>>
        /\ before' = None
        /\ UNCHANGED <<gc, config, pc, mods, watcher>>
\* A command that never calls extract_mod
NoTool == tool' = <<>>

\* clim add [--enable] <archives>
AddCmd ==
    /\ Idle
    /\ \E paths \in Lists(DownloadPaths(fs)), enabled \in BOOLEAN :
         With(add(saved, fs, GameName, paths, FALSE, enabled), LAMBDA r :
             /\ saved' = r.mods
             /\ fs' = r.fs
             /\ last' = Result("add", r.err))
    /\ UNCHANGED pluginsFile
    /\ NoGo /\ NoTool

\* clim enable <names>
EnableCmd ==
    /\ Idle
    /\ \E names \in Lists(Selectors), bad \in SUBSET Unextracted(saved) :
         With(EnableNames(saved, fs, config.data_folder, names, 1, bad, <<>>), LAMBDA r :
             /\ saved' = r.mods
             /\ fs' = r.fs
             /\ tool' = r.ran
             /\ last' = Result("enable", r.err))
    /\ UNCHANGED pluginsFile
    /\ NoGo

\* clim enable --all
EnableAllCmd ==
    /\ Idle
    /\ \E bad \in SUBSET Unextracted(saved) :
         With(enable_all(saved, fs, config.data_folder, bad), LAMBDA r :
             /\ saved' = r.mods
             /\ fs' = r.fs
             /\ tool' = r.ran
             /\ last' = Result("enable", r.err))
    /\ UNCHANGED pluginsFile
    /\ NoGo

\* clim disable <names>
DisableCmd ==
    /\ Idle
    /\ \E names \in Lists(Selectors) :
         With(DisableNames(saved, names, 1), LAMBDA r :
             /\ saved' = r.mods
             /\ last' = Result("disable", r.err))
    /\ UNCHANGED <<fs, pluginsFile>>
    /\ NoGo /\ NoTool

\* clim disable --all
DisableAllCmd ==
    /\ Idle
    /\ saved' = disable_all(saved).mods
    /\ last' = Result("disable", "Ok")
    /\ UNCHANGED <<fs, pluginsFile>>
    /\ NoGo /\ NoTool

\* clim move <name> above|below <other> | top | bottom
MoveCmd ==
    /\ Idle
    /\ \E moved \in Selectors, to \in MoveTargets :
         With(move_mod(saved, moved, to), LAMBDA r :
             /\ saved' = r.mods
             /\ last' = [Result("move", r.err) EXCEPT
                            !.arg = Some([moved |-> moved, to |-> to])])
    /\ UNCHANGED <<fs, pluginsFile>>
    /\ NoGo /\ NoTool

\* clim uninstall [--delete-archives] <names>
UninstallCmd ==
    /\ Idle
    /\ \E names \in Lists(Selectors), delete_archives \in BOOLEAN :
         With(UninstallNames(saved, fs, config.game_folder, config.data_folder,
                                 names, 1, delete_archives), LAMBDA r :
             /\ saved' = r.mods
             /\ fs' = r.fs
             /\ last' = [Result("uninstall", r.err) EXCEPT
                            !.arg = Some([delete_archives |-> delete_archives])])
    /\ UNCHANGED pluginsFile
    /\ NoGo /\ NoTool

\* clim uninstall --all [--delete-archives]
UninstallAllCmd ==
    /\ Idle
    /\ \E delete_archives \in BOOLEAN :
         With(uninstall_all(saved, fs, config.game_folder, config.data_folder,
                                delete_archives), LAMBDA r :
             /\ saved' = r.mods
             /\ fs' = r.fs
             /\ last' = [Result("uninstall", r.err) EXCEPT
                            !.arg = Some([delete_archives |-> delete_archives])])
    /\ UNCHANGED pluginsFile
    /\ NoGo /\ NoTool

(***************************************************************************)
(* The GlobalConfig: clim init and clim set-active.                        *)
(***************************************************************************)
s_clim_toml == <<"c","l","i","m",".","t","o","m","l">>
\* The game names given on the command line
GameNames == {GameName, <<"h">>, <<"k">>}
game_config_file(name) == join(game_dir(name), <<s_clim_toml>>)
\* The state file that init_game saves: the given Config, no mods.
FreshConfig(name, folder) == [src |-> name, path |-> folder]

\* GlobalConfig::init_game with the active game set before the name is
\* looked up.
init_game_reactivates(g, f, name, folder) ==
    IF name \in g.games
    THEN [gc |-> [g EXCEPT !.active_game = Some(name)], fs |-> f,
          err |-> "AlreadyManaged"]
    ELSE [gc |-> [active_game |-> Some(name), games |-> g.games \cup {name}],
          fs |-> EnsureDir([EnsureDir(f, game_dir(name)) EXCEPT
                              !.files = game_config_file(name)
                                          :> FreshConfig(name, folder) @@ @],
                           archives_dir(name)),
          err |-> "Ok"]

\* GlobalConfig::init_game without `self.games.insert(name.clone())`.
init_game_not_inserted(g, f, name, folder) ==
    IF name \in g.games
    THEN [gc |-> g, fs |-> f, err |-> "AlreadyManaged"]
    ELSE [gc |-> [g EXCEPT !.active_game = Some(name)],
          fs |-> EnsureDir([EnsureDir(f, game_dir(name)) EXCEPT
                              !.files = game_config_file(name)
                                          :> FreshConfig(name, folder) @@ @],
                           archives_dir(name)),
          err |-> "Ok"]

\* GlobalConfig::init_game: [gc, fs, err]
init_game(g, f, name, folder) ==
    IF name \in g.games
    THEN [gc |-> g, fs |-> f, err |-> "AlreadyManaged"]
    ELSE [gc |-> [active_game |-> Some(name), games |-> g.games \cup {name}],
          fs |-> EnsureDir([EnsureDir(f, game_dir(name)) EXCEPT
                              !.files = game_config_file(name)
                                          :> FreshConfig(name, folder) @@ @],
                           archives_dir(name)),
          err |-> "Ok"]

\* clim init <name> <game_folder>; the GlobalConfig is saved when it is
\* dropped, whatever init_game returned.
InitCmd ==
    /\ pc = 0
    /\ \E name \in GameNames :
         With(init_game(gc, fs, name, GameFolder), LAMBDA r :
             /\ gc' = r.gc
             /\ fs' = r.fs
             /\ last' = [Result("init", r.err) EXCEPT !.arg = Some(name)])
    /\ phases' = <<>>
    /\ before' = None
    /\ UNCHANGED <<config, saved, pluginsFile, pc, mods, watcher>>
    /\ NoTool

\* clim set-active <name>
SetActiveCmd ==
    /\ pc = 0
    /\ \E name \in GameNames :
         IF name \in gc.games
         THEN /\ gc' = [gc EXCEPT !.active_game = Some(name)]
              /\ last' = [Result("set-active", "Ok") EXCEPT !.arg = Some(name)]
         ELSE /\ gc' = gc
              /\ last' = [Result("set-active", "UnknownGame") EXCEPT !.arg = Some(name)]
    /\ phases' = <<>>
    /\ before' = None
    /\ UNCHANGED <<config, saved, fs, pluginsFile, pc, mods, watcher>>
    /\ NoTool

(***************************************************************************)
(* clim go: Game::go, one action per call of its body.                     *)
(***************************************************************************)
\* Game::go with undeploy called before extract.
go_undeploy_first == <<"undeploy", "extract", "deploy", "plugins">>

\* The calls of Game::go, in order.
go == <<"extract", "undeploy", "deploy", "plugins">>

Running(phase) == pc > 0 /\ go[pc] = phase

\* The end of a call of Game::go with the registry saved only when the pass
\* has succeeded.
Continue_saves_on_success(phase, reg, err, failed) ==
    /\ phases' = Append(phases, phase)
    /\ IF err = "Ok" /\ pc < Len(go)
       THEN /\ pc' = pc + 1
            /\ mods' = reg
            /\ UNCHANGED <<saved, last>>
       ELSE /\ pc' = 0
            /\ mods' = <<>>
            /\ saved' = IF err = "Ok" THEN reg ELSE saved
            /\ last' = [Result("go", err) EXCEPT !.mod = failed]

\* What follows a call of Game::go that returned `err` and left the
\* registry `reg`: the next call, or the return from go and the drop of the
\* Game, which saves the registry.
Continue(phase, reg, err, failed) ==
    /\ phases' = Append(phases, phase)
    /\ IF err = "Ok" /\ pc < Len(go)
       THEN /\ pc' = pc + 1
            /\ mods' = reg
            /\ UNCHANGED <<saved, last>>
       ELSE /\ pc' = 0
            /\ mods' = <<>>
            /\ saved' = reg
            /\ last' = [Result("go", err) EXCEPT !.mod = failed]

\* gc.active_game()?: Game::open reads clim.toml
GoCmd ==
    /\ Idle
    /\ pc' = 1
    /\ mods' = saved
    /\ phases' = <<>>
    /\ before' = Some([tree |-> GameTree(fs), mods |-> saved,
                       after_go |-> last.cmd = "go" /\ last.err = "Ok"])
    /\ NoTool
    /\ UNCHANGED <<gc, config, saved, fs, pluginsFile, last, watcher>>

\* self.extract()?
Extract ==
    /\ Running("extract")
    /\ \E bad \in SUBSET Unextracted(mods) :
         With(extract(mods, GameName, config.data_folder, fs, bad), LAMBDA r :
             /\ fs' = r.fs
             /\ tool' = r.ran
             /\ Continue("extract", r.mods, r.err, r.failed))
    /\ UNCHANGED <<gc, config, pluginsFile, before, watcher>>

\* self.undeploy()?
Undeploy ==
    /\ Running("undeploy")
    /\ With(undeploy(mods, config.game_folder, config.data_folder, fs), LAMBDA r :
           /\ fs' = r.fs
           /\ Continue("undeploy", mods, r.err, None))
    /\ UNCHANGED <<gc, config, pluginsFile, before, watcher, tool>>

\* The folders pseudo_fomod would ask about for some mod of the registry.
Askable(reg, f) ==
    UNION {{FomodCandidates(f, reg[i].mm.extracted[1])[k] :
              k \in 1..Len(FomodCandidates(f, reg[i].mm.extracted[1]))} :
           i \in {j \in 1..Len(reg) : reg[j].mm.enabled /\ IsSome(reg[j].mm.extracted)
                                        /\ reg[j].mm.parts = <<>>
                                        /\ HasFomodConfig(f, reg[j].mm.extracted[1])}}

\* self.deploy()?
Deploy ==
    /\ Running("deploy")
    /\ \E yes \in SUBSET Askable(mods, fs) :
         With(deploy(mods, config.game_folder, config.data_folder, fs, yes), LAMBDA r :
             /\ fs' = r.fs
             /\ Continue("deploy", r.mods, r.err, None))
    /\ UNCHANGED <<gc, config, pluginsFile, before, watcher, tool>>

\* self.write_plugins()?
WritePlugins ==
    /\ Running("plugins")
    /\ pluginsFile' = write_plugins(config.plugins_file, mods, fs, pluginsFile)
    /\ Continue("plugins", mods, "Ok", None)
    /\ UNCHANGED <<gc, config, fs, before, watcher, tool>>

(***************************************************************************)
(* clim watch: the callback of the watcher, which runs in the process of   *)
(* `clim watch` while other commands run in theirs.                        *)
(***************************************************************************)
s_crdownload == <<"c","r","d","o","w","n","l","o","a","d">>

\* gc.active_game(): Game::open reads clim.toml
WatchOpen ==
    /\ watcher = None
    /\ \E path \in DownloadPaths(fs), enabled \in BOOLEAN :
         /\ IsSome(extension(Last(path)))
         /\ extension(Last(path))[1] # s_crdownload
         /\ watcher' = Some([mods |-> saved, path |-> path, enable |-> enabled])
    /\ UNCHANGED <<gc, config, saved, fs, pluginsFile, pc, mods, last, phases, before, tool>>

\* game.add(&[path], false, enable), and the drop of the Game, which saves
WatchAdd ==
    /\ watcher # None
    /\ With(add(watcher[1].mods, fs, GameName, <<watcher[1].path>>, FALSE,
                watcher[1].enable),
            LAMBDA r : /\ saved' = r.mods
                       /\ fs' = r.fs)
    /\ watcher' = None
    /\ UNCHANGED <<gc, config, pluginsFile, pc, mods, last, phases, before, tool>>

Next ==
    \/ AddCmd
    \/ EnableCmd
    \/ EnableAllCmd
    \/ DisableCmd
    \/ DisableAllCmd
    \/ MoveCmd
    \/ UninstallCmd
    \/ UninstallAllCmd
    \/ GoCmd
    \/ Extract
    \/ Undeploy
    \/ Deploy
    \/ WritePlugins
    \/ WatchOpen
    \/ WatchAdd

Spec == Init /\ [][Next]_vars

\* `clim go` and the commands before it, without a watcher.
NextDeploy ==
    \/ AddCmd
    \/ EnableCmd
    \/ EnableAllCmd
    \/ DisableCmd
    \/ DisableAllCmd
    \/ UninstallCmd
    \/ UninstallAllCmd
    \/ GoCmd
    \/ Extract
    \/ Undeploy
    \/ Deploy
    \/ WritePlugins

SpecDeploy == Init /\ [][NextDeploy]_vars

\* One archive with a fomod folder, with and without a data folder.
InitFomod == InitWith({s_Ab_zip}, {None, Some(<<s_Data>>)})
SpecFomod == InitFomod /\ [][NextDeploy]_vars

\* One archive with a wrapper folder, with and without a data folder.
InitHoist == InitWith({s_Ax_zip}, {None, Some(<<s_Data>>)})
SpecHoist == InitHoist /\ [][NextDeploy]_vars

\* The order of the registry: three archives, added and moved.
InitOrder == InitWith({s_A_zip, s_B_zip, s_Ab_zip}, {Some(<<s_Data>>)})
NextOrder ==
    \/ AddCmd
    \/ MoveCmd
SpecOrder == InitOrder /\ [][NextOrder]_vars

\* Three archives, added, disabled and uninstalled: the registry's entries
\* come and go.
NextUninstall ==
    \/ AddCmd
    \/ DisableCmd
    \/ UninstallCmd
    \/ UninstallAllCmd
SpecUninstall == InitOrder /\ [][NextUninstall]_vars

\* Games initialised and activated between the commands on game g.
NextGlobal ==
    \/ InitCmd
    \/ SetActiveCmd
    \/ AddCmd
    \/ DisableCmd
    \/ UninstallCmd
SpecGlobal == Init /\ [][NextGlobal]_vars

\* `clim go` in one process and `clim watch` in another.
NextWatch ==
    \/ GoCmd
    \/ Extract
    \/ Undeploy
    \/ Deploy
    \/ WritePlugins
    \/ WatchOpen
    \/ WatchAdd
SpecWatch == Init /\ [][NextWatch]_vars

(***************************************************************************)
(* Properties                                                              *)
(***************************************************************************)
\* `clim go` has just ended without error.
GoDone == pc = 0 /\ last.cmd = "go" /\ last.err = "Ok"

\* The files below the part paths of a mod, each with the path that
\* Game::deploy links it at and with its content.
Provided(mm, f) ==
    UNION {LET src == part_paths(mm)[k]
               dir == install_dir(config.game_folder, config.data_folder,
                                  contains_data_folder(f, src, config.data_folder).val)
           IN  {[dest |-> join(dir, diff_paths(p, src)), content |-> f.files[p]] :
                  p \in {q \in DOMAIN f.files : IsPrefix(src, q)}} :
           k \in 1..Len(part_paths(mm))}

Deployable(mm) == mm.enabled /\ IsSome(mm.extracted)

\* C1: for enabled mods A before B in registry order that both hold a file
\* for the same destination path p, after a successful `clim go` the file at
\* p is the link to B's file.
C1_LaterWins ==
    GoDone =>
      \A i \in 1..Len(saved), j \in 1..Len(saved) :
        (i < j /\ Deployable(saved[i].mm) /\ Deployable(saved[j].mm)) =>
          \A x \in Provided(saved[i].mm, fs), y \in Provided(saved[j].mm, fs) :
            (x.dest = y.dest /\ x.content # y.content) =>
              (is_file(fs, y.dest) /\ fs.files[y.dest] = y.content)

\* C2: a `clim go` that follows a successful `clim go`, with no command in
\* between and the registry and the extracted trees as the first one left
\* them, leaves the game folder as the first one left it.
C2_Idempotent ==
    (GoDone /\ IsSome(before) /\ before[1].after_go /\ before[1].mods = saved)
      => GameTree(fs) = before[1].tree

\* Mod mm had a file linked into the game folder when `clim go` started.
WasDeployed(mm) ==
    /\ IsSome(before)
    /\ \E p \in DOMAIN before[1].tree.files :
         before[1].tree.files[p].src = Last(mm.archive)

\* The destination paths of the files of the enabled mods.
EnabledDests ==
    UNION {{x.dest : x \in Provided(saved[i].mm, fs)} :
           i \in {j \in 1..Len(saved) : Deployable(saved[j].mm)}}

\* C3: after a mod M that was deployed has been disabled and `clim go` has
\* run again, no path that only M's files map to exists, as a file or as a
\* directory, and every path that a file of an enabled mod maps to too exists.
C3_DisabledModRemoved ==
    GoDone =>
      \A i \in 1..Len(saved) :
        (~saved[i].mm.enabled /\ IsSome(saved[i].mm.extracted)
           /\ WasDeployed(saved[i].mm)) =>
          \A x \in Provided(saved[i].mm, fs) :
            IF x.dest \in EnabledDests THEN exists(fs, x.dest)
            ELSE ~exists(fs, x.dest)

\* A step keeps every entry of the persisted registry, with its extracted
\* folder and its parts if it had them.
KeepsRegistry ==
    \A i \in 1..Len(saved) :
      \E j \in 1..Len(saved') :
        /\ saved'[j].name = saved[i].name
        /\ IsSome(saved[i].mm.extracted) => IsSome(saved'[j].mm.extracted)
        /\ saved[i].mm.parts # <<>> => saved'[j].mm.parts # <<>>

\* C4: with `clim watch` and `clim go` running at once, no rewrite of the
\* state file by either loses a mod the watcher added or an extracted
\* folder or parts the pass recorded.
C4_NoLostUpdate == [][KeepsRegistry]_vars

\* The elements of a sequence
Range(seq) == {seq[i] : i \in 1..Len(seq)}

\* C5: when the extraction tool fails for a mod M during `clim go`, the pass
\* still undeploys and installs: it makes its undeploy and deploy calls, and
\* every other enabled mod has a file linked into the game folder after it.
C5_ExtractionFailureDoesNotAbort ==
    (pc = 0 /\ last.cmd = "go" /\ IsSome(last.mod)) =>
      /\ {"undeploy", "deploy"} \subseteq Range(phases)
      /\ \A i \in 1..Len(saved) :
           (saved[i].mm.enabled /\ saved[i].name # last.mod[1]) =>
             \E p \in DOMAIN GameTree(fs).files :
               fs.files[p].src = Last(saved[i].mm.archive)

\* The step is a `clim move` with the arguments held by last'.arg, applied to
\* the registry `saved`.
Moves(kinds) ==
    /\ last'.cmd = "move"
    /\ IsSome(last'.arg)
    /\ last'.arg[1].to.kind \in kinds

\* The registry with entry m taken out and put back just before (offset 0)
\* or just after (offset 1) the entry that is at o.
Reinserted(reg, m, o, offset) ==
    LET rest == SubSeq(reg, 1, m - 1) \o SubSeq(reg, m + 1, Len(reg))
        k == (IF o < m THEN o ELSE o - 1) - 1 + offset
    IN  SubSeq(rest, 1, k) \o <<reg[m]>> \o SubSeq(rest, k + 1, Len(rest))

\* C6: a move of m above or below o, where the selectors resolve to entries
\* with different names, succeeds and gives the registry with m taken out
\* and put back just before (above) or just after (below) o, so that m ends
\* next to o on that side.
C6_AboveBelow ==
    [][Moves({"Above", "Below"}) =>
         LET m == get_mod(saved, last'.arg[1].moved)
             o == get_mod(saved, last'.arg[1].to.name)
             offset == IF last'.arg[1].to.kind = "Above" THEN 0 ELSE 1
         IN  (m # 0 /\ o # 0 /\ saved[m].name # saved[o].name) =>
               /\ last'.err = "Ok"
               /\ saved' = Reinserted(saved, m, o, offset)
               /\ Position(saved', saved[m].name)
                    = Position(saved', saved[o].name) - 1 + 2 * offset]_vars

Names(reg) == [i \in 1..Len(reg) |-> reg[i].name]

\* On [A, B, Ab], `move ab above a` has given [Ab, A, B].
C6_Witness ==
    /\ last.cmd = "move" /\ last.err = "Ok"
    /\ last.arg = Some([moved |-> <<"a","b">>, to |-> [kind |-> "Above", name |-> <<"a">>]])
    /\ Names(saved) = << <<"A","b">>, <<"A">>, <<"B">> >>

\* C7: a move of m to the top puts the resolved entry at the first place, a
\* move to the bottom puts it at the last, the other entries keeping their
\* order; it succeeds whenever the selector resolves.
C7_TopBottom ==
    [][Moves({"Top", "Bottom"}) =>
         LET m == get_mod(saved, last'.arg[1].moved)
             rest == SubSeq(saved, 1, m - 1) \o SubSeq(saved, m + 1, Len(saved))
         IN  m # 0 =>
               /\ last'.err = "Ok"
               /\ saved' = IF last'.arg[1].to.kind = "Top"
                           THEN <<saved[m]>> \o rest
                           ELSE rest \o <<saved[m]>>]_vars

\* On a registry of three with A before Ab, `move a bottom` has put A last.
C7_Witness ==
    /\ last.cmd = "move" /\ last.err = "Ok"
    /\ last.arg = Some([moved |-> <<"a">>, to |-> [kind |-> "Bottom", name |-> <<>>]])
    /\ Names(saved) = << <<"B">>, <<"A","b">>, <<"A">> >>

\* C8: a move whose moved selector or whose above/below selector matches no
\* mod, or whose selectors resolve to the same name, returns the error and
\* leaves the registry as it was.
C8_MoveAtomicOnError ==
    [][Moves({"Above", "Below", "Top", "Bottom"}) =>
         LET m == get_mod(saved, last'.arg[1].moved)
             o == get_mod(saved, last'.arg[1].to.name)
             rel == last'.arg[1].to.kind \in {"Above", "Below"}
         IN  /\ m = 0 => (last'.err = "UnknownMod" /\ saved' = saved)
             /\ (m # 0 /\ rel /\ o = 0) => (last'.err = "UnknownMod" /\ saved' = saved)
             /\ (m # 0 /\ rel /\ o # 0 /\ saved[m].name = saved[o].name)
                  => (last'.err = "SelfRelativeMove" /\ saved' = saved)
             /\ last'.err # "Ok" => saved' = saved]_vars

\* On a registry of three that Ab leads, `move ab below b`, where b resolves
\* to Ab too, has failed.
C8_Witness ==
    /\ last.cmd = "move"
    /\ Len(saved) = 3
    /\ last.err = "SelfRelativeMove"
    /\ last.arg[1].moved = <<"a","b">> /\ last.arg[1].to.name = <<"b">>
    /\ Names(saved)[1] = <<"A","b">>

\* C9: no file name is twice in the plugin list that `clim go` writes.
C9_NoDuplicatePlugin ==
    IsSome(pluginsFile) =>
      \A i \in 1..Len(pluginsFile[1]), j \in 1..Len(pluginsFile[1]) :
        i # j => pluginsFile[1][i] # pluginsFile[1][j]

Extracts == pc = 1 \/ (pc = 0 /\ pc' = 0 /\ last'.cmd = "enable")

\* The files and directories below path p.
Below(f, p) ==
    [dirs |-> {d \in f.dirs : IsPrefix(p, d)},
     files |-> Restrict(f.files, {q \in DOMAIN f.files : IsPrefix(p, q)})]

\* C11: a step that calls extract_mod invokes the extraction tool at most
\* once for a mod, and not at all for a mod whose extracted folder is
\* recorded: that mod keeps its record and its extracted tree as they were.
C11_ExtractOnce ==
    [][Extracts =>
         LET reg == IF pc = 1 THEN mods ELSE saved
             reg2 == IF pc' # 0 THEN mods' ELSE saved'
         IN  /\ \A a \in 1..Len(tool'), b \in 1..Len(tool') : a # b => tool'[a] # tool'[b]
             /\ \A i \in 1..Len(reg) :
                   IsSome(reg[i].mm.extracted) =>
                     /\ reg[i].name \notin Range(tool')
                     /\ reg2[i].mm.extracted = reg[i].mm.extracted
                     /\ Below(fs', reg[i].mm.extracted[1])
                          = Below(fs, reg[i].mm.extracted[1])]_vars

\* A `clim go` that follows a successful one has made its extract call
\* without invoking the tool, with an enabled mod extracted before.
C11_Witness ==
    /\ pc = 2 /\ tool = <<>>
    /\ IsSome(before) /\ before[1].after_go
    /\ \E i \in 1..Len(mods) : mods[i].mm.enabled /\ IsSome(mods[i].mm.extracted)

\* C12: a command other than move leaves the mods that stay in the registry
\* in the order they had.
C12_OrderKept ==
    [][last'.cmd # "move" =>
         \A i \in 1..Len(saved), j \in 1..Len(saved) :
           (i < j /\ {saved[i].name, saved[j].name} \subseteq Keys(saved')) =>
             Position(saved', saved[i].name) < Position(saved', saved[j].name)]_vars

\* C13: in the deploy call of a `clim go` that follows a successful
\* `clim go`, which resolved the parts of every enabled mod with an installer
\* descriptor, the user is asked about no folder, and every mod keeps the
\* parts recorded for it.
C13_PartsSticky ==
    [][(pc = 3 /\ IsSome(before) /\ before[1].after_go) =>
         LET reg2 == IF pc' # 0 THEN mods' ELSE saved'
         IN  /\ Askable(mods, fs) = {}
             /\ \A i \in 1..Len(mods) : reg2[i].mm.parts = mods[i].mm.parts]_vars

\* C14: an enable, disable or uninstall command that ends with the
\* unknown-mod error leaves the persisted registry as it was before the
\* command, for the mods named before the unknown one too.
C14_LookupErrorBeforeMutation ==
    [][(last'.cmd \in {"enable", "disable", "uninstall"} /\ last'.err = "UnknownMod")
         => saved' = saved]_vars

(***************************************************************************)
(* The game folder changed behind the program's back, and a `clim go`      *)
(* that is killed.                                                         *)
(***************************************************************************)
\* The paths of the game folder that the files of the registry's mods map to.
OverlayPaths(reg, f) ==
    UNION {{x.dest : x \in Provided(reg[i].mm, f)} : i \in 1..Len(reg)}

\* A file that no archive holds.
ForeignFile == [src |-> <<"o","t","h","e","r">>, path |-> <<>>]

\* Something other than clim deletes what is at an overlay path, or puts a
\* file of its own or a directory there.
Tamper ==
    /\ Idle
    /\ \E p \in OverlayPaths(saved, fs), kind \in {"delete", "file", "dir"} :
         With(remove_dir_all(fs, p), LAMBDA cleared :
           /\ is_dir(fs, Front(p))
           /\ fs' = CASE kind = "delete" -> cleared
                      [] kind = "file" ->
                           [cleared EXCEPT !.files = (p :> ForeignFile) @@ cleared.files]
                      [] kind = "dir" -> create_dir_all(cleared, p)
           /\ fs' # fs)
    /\ last' = Result("out of band", "Ok")
    /\ UNCHANGED <<saved, pluginsFile>>
    /\ NoGo /\ NoTool

\* The process of `clim go` is killed between two calls of Game::go: the
\* Game is not dropped, clim.toml stays as it was.
Interrupt ==
    /\ pc > 0
    /\ pc' = 0
    /\ mods' = <<>>
    /\ last' = Result("go", "Killed")
    /\ UNCHANGED <<gc, config, saved, fs, pluginsFile, phases, before, watcher, tool>>

\* One archive without installer, its mod added, disabled, deployed, with
\* passes killed and overlay paths changed out of band.
InitHeal == InitWith({s_B_zip}, {Some(<<s_Data>>)})
NextHeal ==
    \/ AddCmd
    \/ DisableCmd
    \/ GoCmd
    \/ Extract
    \/ Undeploy
    \/ Deploy
    \/ WritePlugins
    \/ Tamper
    \/ Interrupt
SpecHeal == InitHeal /\ [][NextHeal]_vars

\* The game folder that Game::deploy builds for registry reg when nothing is
\* at the overlay paths beforehand.
RECURSIVE ClearPaths(_, _)
ClearPaths(f, S) ==
    IF S = {} THEN f
    ELSE LET p == CHOOSE x \in S : TRUE
         IN  ClearPaths(remove_dir_all(f, p), S \ {p})

Rebuilt(reg, f) ==
    GameTree(deploy(reg, config.game_folder, config.data_folder,
                    ClearPaths(f, OverlayPaths(reg, f)), {}).fs)

\* C15: after a successful `clim go` the game folder is what the install
\* phase builds for the registry and the extracted trees from empty overlay
\* paths, whatever was at the overlay paths before the pass.
C15_SelfHealing == GoDone => GameTree(fs) = Rebuilt(saved, fs)

\* C16: when the undeploy call of `clim go` has returned without error, it
\* met no file system error: every part path of every mod of the registry,
\* which it had to read and walk, is a directory that exists.
C16_FsErrorAborts ==
    pc = 3 =>
      \A i \in 1..Len(mods) :
        \A k \in 1..Len(part_paths(mods[i].mm)) : is_dir(fs, part_paths(mods[i].mm)[k])

\* C17: after a successful `clim go`, the path that a file of an enabled,
\* extracted mod maps to is a file in the game folder, and it is the link
\* to a file of an enabled mod that maps to that path.
C17_EveryFileLinked ==
    GoDone =>
      \A i \in 1..Len(saved) :
        Deployable(saved[i].mm) =>
          \A x \in Provided(saved[i].mm, fs) :
            /\ is_file(fs, x.dest)
            /\ \E j \in 1..Len(saved) :
                 /\ Deployable(saved[j].mm)
                 /\ \E y \in Provided(saved[j].mm, fs) :
                      y.dest = x.dest /\ fs.files[x.dest] = y.content

\* The files of the game folder that are links to files of mod mm.
LinksOf(mm, f) ==
    {p \in DOMAIN GameTree(f).files : f.files[p].src = Last(mm.archive)}

\* C18: after a successful `clim go` no file of the game folder is a link
\* to a file of a mod of the registry that is disabled.
C18_DisabledNotLinked ==
    GoDone => \A i \in 1..Len(saved) : ~saved[i].mm.enabled => LinksOf(saved[i].mm, fs) = {}

\* A successful `clim go` has ended with a disabled, extracted mod whose
\* files were linked into the game folder when it started, and with an
\* enabled mod linked now.
C18_Witness ==
    /\ GoDone
    /\ \E i \in 1..Len(saved), j \in 1..Len(saved) :
         /\ ~saved[i].mm.enabled /\ IsSome(saved[i].mm.extracted)
         /\ WasDeployed(saved[i].mm)
         /\ saved[j].mm.enabled /\ LinksOf(saved[j].mm, fs) # {}

\* C19: when the undeploy call of `clim go` has returned without error, no
\* file is in the game folder at a path that a file of a part of a mod of
\* the registry, enabled or not, maps to.
C19_UndeployCoversAll ==
    pc = 3 =>
      \A i \in 1..Len(mods) :
        \A x \in Provided(mods[i].mm, fs) : ~is_file(fs, x.dest)

\* The undeploy call has returned in a pass that found files of a disabled
\* mod and files of an enabled mod linked into the game folder.
C19_Witness ==
    /\ pc = 3
    /\ \E i \in 1..Len(mods), j \in 1..Len(mods) :
         /\ ~mods[i].mm.enabled /\ WasDeployed(mods[i].mm)
         /\ Provided(mods[i].mm, fs) # {}
         /\ mods[j].mm.enabled /\ WasDeployed(mods[j].mm)

\* The install folders that Game::deploy has used for a mod in the pass that
\* has just ended: the recorded parts, none when the user chose none of the
\* folders of an installer, else the extracted folder.
ResolvedParts(mm, f) ==
    IF ~Deployable(mm) THEN <<>>
    ELSE IF mm.parts # <<>> THEN mm.parts
    ELSE IF HasFomodConfig(f, mm.extracted[1]) THEN <<>>
    ELSE <<mm.extracted[1]>>

\* The plugin file names in the resolved parts of the enabled mods, in
\* registry order.
RECURSIVE ResolvedPlugins(_, _, _)
ResolvedPlugins(reg, i, f) ==
    IF i > Len(reg) THEN <<>>
    ELSE PartsPlugins(f, ResolvedParts(reg[i].mm, f)) \o ResolvedPlugins(reg, i + 1, f)

\* s is t with some elements left out.
RECURSIVE IsSubseq(_, _)
IsSubseq(s, t) ==
    IF s = <<>> THEN TRUE
    ELSE IF t = <<>> THEN FALSE
    ELSE IF Head(s) = Head(t) THEN IsSubseq(Tail(s), Tail(t))
    ELSE IsSubseq(s, Tail(t))

\* C20: the plugin list that a successful `clim go` has written holds one
\* line per name, each a '*' followed by a file name; the names are exactly
\* the plugin file names found in the resolved parts of the enabled mods,
\* and they come in the registry order of the mods they are found in.
C20_PluginList ==
    (GoDone /\ IsSome(pluginsFile)) =>
      LET lines == pluginsFile[1]
          names == [i \in 1..Len(lines) |-> Tail(lines[i])]
          found == ResolvedPlugins(saved, 1, fs)
      IN  /\ \A i \in 1..Len(lines) : Head(lines[i]) = "*"
          /\ Range(names) = Range(found)
          /\ IsSubseq(names, found)

\* The registry a command works on: that of the running `clim go`, else the
\* persisted one.
RegNow == IF pc > 0 THEN mods ELSE saved

\* The entry of name n in registry reg
Entry(reg, n) == reg[Position(reg, n)].mm

\* The step ends a command with one of the errors errs.
Ended(errs) == pc' = 0 /\ last'.err \in errs

\* C21: a step records an extracted folder only for a mod for which it has
\* invoked the extraction tool and the tool has succeeded, the folder then
\* holding the archive's files; a step that ends with the extraction error
\* leaves the mod it failed for without extracted folder; and a mod for
\* which the tool was invoked and did not fail has its folder recorded.
C21_ExtractedIffCompleted ==
    [][/\ \A n \in Keys(RegNow') :
            (/\ IsSome(Entry(RegNow', n).extracted)
             /\ (n \in Keys(RegNow) => Entry(RegNow, n).extracted = None))
              => /\ n \in Range(tool')
                 /\ Ended({"Extraction"}) => n # tool'[Len(tool')]
                 /\ \E f \in DOMAIN fs'.files :
                      /\ IsPrefix(Entry(RegNow', n).extracted[1], f)
                      /\ fs'.files[f].src = Last(Entry(RegNow', n).archive)
       /\ (Extracts /\ Ended({"Extraction"})) =>
            /\ tool' # <<>>
            /\ Entry(RegNow', tool'[Len(tool')]).extracted = None
       /\ Extracts =>
            \A k \in 1..Len(tool') :
              \/ IsSome(Entry(RegNow', tool'[k]).extracted)
              \/ (k = Len(tool') /\ Ended({"Extraction", "IO"}))]_vars

\* A `clim go` has ended with the extraction error: the tool succeeded for
\* the first mod, whose folder is recorded, and failed for the second.
C21_Witness ==
    /\ pc = 0 /\ last.cmd = "go" /\ last.err = "Extraction"
    /\ Len(tool) = 2 /\ Len(saved) = 2
    /\ IsSome(saved[1].mm.extracted)
    /\ saved[2].mm.extracted = None

\* The step is a `clim uninstall` run with --delete-archives.
UninstallsWithDeletion ==
    /\ pc = 0 /\ pc' = 0 /\ last'.cmd = "uninstall"
    /\ last'.arg = Some([delete_archives |-> TRUE])

\* Registry `after` is registry `reg` without the entries named in `gone`,
\* the other entries keeping their archive.
Removed(reg, after, gone) ==
    /\ Keys(after) = Keys(reg) \ gone
    /\ Len(after) = Len(reg) - Cardinality(gone)
    /\ \A n \in Keys(after) : Entry(after, n).archive = Entry(reg, n).archive

\* C22: a mod leaves the registry only through an uninstall with archive
\* deletion: every step of add, enable, disable, go and uninstall without
\* deletion keeps every registered mod registered; and in every
\* state a successful uninstall(name, TRUE) removes the mod the name resolves
\* to and no other, a failed one removes none, and a successful
\* uninstall_all(TRUE) leaves the registry empty.
C22_LeavesOnlyByDeletion ==
    /\ [][~UninstallsWithDeletion => Keys(RegNow) \subseteq Keys(RegNow')]_vars
    /\ [](pc = 0 =>
           /\ \A name \in Selectors :
                With(uninstall(saved, fs, config.game_folder, config.data_folder,
                               name, TRUE), LAMBDA r :
                  IF r.err = "Ok"
                  THEN Removed(saved, r.mods, {saved[get_mod(saved, name)].name})
                  ELSE Removed(saved, r.mods, {}))
           /\ With(uninstall_all(saved, fs, config.game_folder, config.data_folder,
                                 TRUE), LAMBDA r :
                  IF r.err = "Ok" THEN r.mods = <<>> ELSE Removed(saved, r.mods, {})))

\* An uninstall with archive deletion has succeeded on a registry of two
\* mods: one mod is left and an archive is gone from the archives folder.
C22_Witness ==
    /\ pc = 0 /\ last.cmd = "uninstall" /\ last.err = "Ok"
    /\ last.arg = Some([delete_archives |-> TRUE])
    /\ Len(saved) = 1
    /\ \E a \in {s_A_zip, s_B_zip} :
         /\ ~is_file(fs, Append(archives_dir(GameName), a))
         /\ Last(saved[1].mm.archive) # a

\* The step is a `clim init` of a name.
Inits == pc = 0 /\ pc' = 0 /\ last'.cmd = "init" /\ last'.arg # None

\* C23: a `clim init` of a name that is a known game ends with the
\* already-managed error and leaves the known games, the active game, the
\* registry and the file system as they were, and a `clim init` of any other
\* name does not end with that error; a command that ends with the
\* already-managed or the unknown-game error has changed nothing, so the
\* commands after it find the state the commands before it left.
C23_AlreadyManaged ==
    [][/\ Inits =>
            IF last'.arg[1] \in gc.games
            THEN /\ last'.err = "AlreadyManaged"
                 /\ UNCHANGED <<gc, config, saved, fs, pluginsFile>>
            ELSE /\ last'.err = "Ok"
                 /\ gc'.games = gc.games \cup {last'.arg[1]}
       /\ (pc = 0 /\ pc' = 0 /\ last'.err \in {"AlreadyManaged", "UnknownGame"})
            => UNCHANGED <<gc, config, saved, fs, pluginsFile>>]_vars

\* An init of game g has failed while h, initialised after g, is the active
\* game and g has a mod in its registry.
C23_Witness ==
    /\ last.cmd = "init" /\ last.err = "AlreadyManaged" /\ last.arg = Some(GameName)
    /\ gc.active_game = Some(<<"h">>)
    /\ gc.games = {GameName, <<"h">>}
    /\ saved # <<>>

\* The entries of reg other than the one named n, in their order
Others(reg, n) == SelectSeq(reg, LAMBDA e : e.name # n)

\* C24: a move that succeeds, above, below, to the top or to the bottom,
\* leaves the registry with the same names, each with the ManagedMod it had,
\* and with the entries other than the moved one in the order they were in.
C24_StableReordering ==
    [][(Moves({"Above", "Below", "Top", "Bottom"}) /\ last'.err = "Ok") =>
         LET m == get_mod(saved, last'.arg[1].moved)
         IN  /\ m # 0
             /\ Len(saved') = Len(saved)
             /\ Keys(saved') = Keys(saved)
             /\ \A n \in Keys(saved) : Entry(saved', n) = Entry(saved, n)
             /\ Others(saved', saved[m].name) = Others(saved, saved[m].name)]_vars

\* On a registry of three, `move b top` has put B, enabled, before Ab,
\* disabled, and A.
C24_Witness ==
    /\ last.cmd = "move" /\ last.err = "Ok"
    /\ last.arg = Some([moved |-> <<"b">>, to |-> [kind |-> "Top", name |-> <<>>]])
    /\ Names(saved) = << <<"B">>, <<"A","b">>, <<"A">> >>
    /\ saved[1].mm.enabled /\ ~saved[2].mm.enabled

\* The install root of part s as the specification words it: the game
\* folder when no data folder is configured or an entry of s itself has the
\* data folder's name, else the data folder of the game.
InstallRoot(f, s) ==
    IF config.data_folder = None THEN config.game_folder
    ELSE IF \E e \in AllPaths(f) : /\ Len(e) = Len(s) + 1
                                   /\ SubSeq(e, 1, Len(s)) = s
                                   /\ <<Last(e)>> = config.data_folder[1]
    THEN config.game_folder
    ELSE config.game_folder \o config.data_folder[1]

\* The files of the game folder that are links to files of a mod.
Links(f) ==
    {q \in DOMAIN f.files : IsPrefix(GameFolder, q) /\ f.files[q].src # VanillaFile.src}

\* The paths of the game folder that the files of part s map to.
PartTargets(f, s) ==
    {InstallRoot(f, s) \o diff_paths(p, s) :
       p \in {x \in DOMAIN f.files : IsPrefix(s, x)}}

\* The paths an undeploy of registry reg goes to for the files of the parts
\* it can read.
Targets(reg, f) ==
    UNION {PartTargets(f, s) :
             s \in UNION {{x \in Range(part_paths(reg[i].mm)) : is_dir(f, x)} :
                            i \in 1..Len(reg)}}

\* C25: every link that the install phase of a pass creates lies at the
\* install root of a part of an enabled mod, joined with the path the linked
\* file has in the part, the install root being the game folder when no
\* data folder is configured or the part has a top-level entry with the
\* data folder's name, and the data folder otherwise; when the phase
\* succeeds every file of a recorded part, or of the extracted folder of a
\* mod without installer, whose name has an extension is present there; and
\* whenever no pass is past its undeploy, every link of the game folder is a
\* path that an undeploy of the registry goes to.
C25_InstallRoot ==
    /\ [][(pc = 3 /\ pc' # 3) =>
            /\ \A q \in Links(fs') \ Links(fs) :
                 \E i \in 1..Len(RegNow') :
                   /\ RegNow'[i].mm.enabled
                   /\ \E t \in Range(part_paths(RegNow'[i].mm)) :
                        \E x \in DOMAIN fs.files :
                          /\ IsPrefix(t, x)
                          /\ q = InstallRoot(fs, t) \o diff_paths(x, t)
                          /\ fs'.files[q] = fs.files[x]
            /\ pc' = 4 =>
                 \A i \in 1..Len(mods') :
                   (mods'[i].mm.enabled /\ IsSome(mods'[i].mm.extracted)
                      /\ (mods'[i].mm.parts = <<>>
                            => ~HasFomodConfig(fs, mods'[i].mm.extracted[1])))
                     => \A t \in Range(part_paths(mods'[i].mm)) :
                          \A x \in DOMAIN fs.files :
                            (IsPrefix(t, x) /\ IsSome(extension(Last(x))))
                              => is_file(fs', InstallRoot(fs, t) \o diff_paths(x, t))]_vars
    /\ [](pc \in {0, 1, 2} => Links(fs) \subseteq Targets(RegNow, fs))

\* After a successful pass of a game with data folder the installer's part
\* 0, without Data entry, is linked below the data folder and its part 1,
\* which has one, below the game folder, both at game/Data.
C25_Witness ==
    /\ GoDone
    /\ IsSome(config.data_folder)
    /\ Len(saved) = 1 /\ Len(saved[1].mm.parts) = 2
    /\ join(GameFolder, <<s_Data, s_x_esp>>) \in Links(fs)
    /\ \E q \in Links(fs) : fs.files[q].path = << <<"0">>, s_foo_esp >>

\* The directories strictly between top and path q
Ancestors(top, q) == {d \in Prefixes(q) : Len(top) < Len(d) /\ Len(d) < Len(q)}

\* C26: in every state and for every file q below the game folder, its data
\* folder or the library taken as root, remove_path leaves q absent and every
\* other file present, removes only directories between the root and q,
\* each of which held nothing but q or a removed directory, leaves none of
\* them empty, and leaves the root a directory; and the undeploy of a pass
\* leaves nothing below a directory it has removed and leaves the game folder.
C26_EmptyAncestorsRemoved ==
    /\ [](\A top \in {GameFolder, join(GameFolder, <<s_Data>>), clim_dir} :
           \A q \in {x \in DOMAIN fs.files : IsPrefix(top, x)} :
             With(remove_path(fs, top, diff_paths(q, top)), LAMBDA f :
               LET gone == fs.dirs \ f.dirs
               IN  /\ DOMAIN f.files = DOMAIN fs.files \ {q}
                   /\ f.dirs \subseteq fs.dirs
                   /\ gone \subseteq Ancestors(top, q)
                   /\ \A d \in gone : read_dir(fs, d) \subseteq gone \cup {q}
                   /\ \A d \in Ancestors(top, q) \ gone : read_dir(f, d) # {}
                   /\ is_dir(fs, top) => is_dir(f, top)))
    /\ [][(pc = 2 /\ pc' # 2) =>
            /\ is_dir(fs', GameFolder)
            /\ \A d \in fs.dirs \ fs'.dirs :
                 \A x \in AllPaths(fs') : ~IsPrefix(d, x)]_vars

\* The undeploy of a pass has removed the link at Data/x.esp, which part 1
\* of the installer had below the game folder as its root, with the folder
\* Data, which it left empty, and has stopped at the game folder.
C26_Witness ==
    /\ pc = 3
    /\ IsSome(before)
    /\ join(GameFolder, <<s_Data, s_x_esp>>) \in DOMAIN before[1].tree.files
    /\ ~is_dir(fs, join(GameFolder, <<s_Data>>))
    /\ is_dir(fs, GameFolder)

\* Selector sel is a part of name when case is put aside.
PartOf(sel, name) ==
    LET low(w) == [k \in 1..Len(w) |-> char_to_lowercase(w[k])]
    IN  \E k \in 0..(Len(name) - Len(sel)) :
          \A c \in 1..Len(sel) : low(name)[k + c] = low(sel)[c]

\* The selectors asked of a registry: those of the commands and their
\* upper-case spellings.
Queries == Selectors \cup {<<"A">>, <<"B">>, <<"A","B">>, <<"A","b">>, <<"a","B">>}

\* The places of registry reg whose name selector sel is a part of
Matching(reg, sel) == {i \in 1..Len(reg) : PartOf(sel, reg[i].name)}

\* C27: for every registry and selector, get_mod fails exactly when the
\* selector is, case put aside, part of no name, and else gives the first
\* place whose name it is part of, whatever the later names are; and a
\* `move <selector> top` ends with the unknown-mod error in the first case
\* and puts the entry of that place first in the second.
C27_FirstMatch ==
    /\ [](\A sel \in Queries :
           IF Matching(saved, sel) = {}
           THEN get_mod(saved, sel) = 0
           ELSE /\ get_mod(saved, sel) \in Matching(saved, sel)
                /\ \A i \in Matching(saved, sel) : get_mod(saved, sel) <= i)
    /\ [][Moves({"Top"}) =>
            IF Matching(saved, last'.arg[1].moved) = {}
            THEN last'.err = "UnknownMod" /\ saved' = saved
            ELSE /\ last'.err = "Ok"
                 /\ \E i \in Matching(saved, last'.arg[1].moved) :
                      /\ saved'[1] = saved[i]
                      /\ \A j \in Matching(saved, last'.arg[1].moved) : i <= j]_vars

\* `move a top` on a registry where Ab precedes A has left Ab first: the
\* selector resolved to Ab although A is the selector but for case.
C27_Witness ==
    /\ last.cmd = "move" /\ last.err = "Ok"
    /\ last.arg = Some([moved |-> <<"a">>, to |-> [kind |-> "Top", name |-> <<>>]])
    /\ Len(saved) >= 2
    /\ saved[1].name = <<"A","b">>
    /\ \E i \in 2..Len(saved) : saved[i].name = <<"A">>

\* The step ends a command: the Game it opened is dropped.
Drops == pc' = 0 /\ last'.err # "Killed"

\* C28: the registry in the state file after a command is the one the
\* command had in memory when it ended, with what it did before it failed:
\* every mod for which the command ran the extraction tool with success has
\* its folder in the persisted registry whatever the command returned, a
\* pass that ends persists every entry it worked on, those it did not
\* extract for or install with the folder and, if they had any, the parts
\* they had, and between commands every folder the persisted registry
\* records exists.
C28_SavedOnDrop ==
    /\ [][Drops =>
            /\ \A k \in 1..Len(tool') :
                 /\ tool'[k] \in Keys(saved')
                 /\ \/ IsSome(Entry(saved', tool'[k]).extracted)
                    \/ (k = Len(tool') /\ last'.err \in {"Extraction", "IO"})
            /\ pc > 0 =>
                 /\ Names(saved') = Names(mods)
                 /\ \A n \in Keys(mods) :
                      /\ IsSome(Entry(mods, n).extracted)
                           => Entry(saved', n).extracted = Entry(mods, n).extracted
                      /\ Entry(mods, n).parts # <<>>
                           => Entry(saved', n).parts = Entry(mods, n).parts]_vars
    /\ [](pc = 0 => \A i \in 1..Len(saved) :
                      IsSome(saved[i].mm.extracted)
                        => is_dir(fs, saved[i].mm.extracted[1]))

\* `clim enable` has ended with the unknown-mod error after it had extracted
\* and enabled A: the state file has A enabled with its folder.
C28_Witness ==
    /\ pc = 0 /\ last.cmd = "enable" /\ last.err = "UnknownMod"
    /\ tool = << <<"A">> >>
    /\ Len(saved) = 2
    /\ Entry(saved, <<"A">>).enabled
    /\ IsSome(Entry(saved, <<"A">>).extracted)

\* The folders at the root of archive a
RootFolders(a) == {m[1] : m \in {x \in ArchiveMembers(a) : Len(x) > 1}}

\* The hoist is due for archive a: its root has one folder, and that
\* folder has not the name of the data folder.
HoistDue(a) ==
    /\ Cardinality(RootFolders(a)) = 1
    /\ \A d \in RootFolders(a) :
         config.data_folder = None \/ <<d>> # config.data_folder[1]

EndsPassAfterUninstall ==
    /\ pc > 0 /\ pc' = 0
    /\ last.cmd = "uninstall" /\ last.err = "Ok"
    /\ last.arg = Some([delete_archives |-> FALSE])
    /\ last'.cmd = "go"

\* C30: the pass that follows an uninstall without archive deletion ends
\* without error, unless the extraction tool fails in it, whatever parts the
\* uninstalled mod has recorded and whether or not the game has a data
\* folder.
C30_PassAfterUninstall ==
    [][EndsPassAfterUninstall => last'.err \in {"Ok", "Extraction"}]_vars

\* C31: in every registry the program holds, in memory or in the state
\* file, a mod with recorded parts has its extracted folder recorded.
C31_PartsImplyExtracted ==
    \A i \in 1..Len(RegNow) :
      RegNow[i].mm.parts # <<>> => IsSome(RegNow[i].mm.extracted)

\* The paths below the game folder that the entries, files and folders, of
\* the readable parts of registry reg map to.
Overlay(reg, f) ==
    UNION {{InstallRoot(f, t) \o diff_paths(x, t) :
              x \in {y \in AllPaths(f) : IsPrefix(t, y)}} :
             t \in UNION {{y \in Range(part_paths(reg[i].mm)) : is_dir(f, y)} :
                            i \in 1..Len(reg)}}

\* The paths of the game folder at which f and g differ: a file or a folder
\* is at the path in one and not in the other, or the file has changed.
Touched(f, g) ==
    {x \in {y \in AllPaths(f) \cup AllPaths(g) : IsPrefix(GameFolder, y)} :
       \/ is_dir(f, x) # is_dir(g, x)
       \/ is_file(f, x) # is_file(g, x)
       \/ (is_file(f, x) /\ is_file(g, x) /\ f.files[x] # g.files[x])}

\* C32: every path of the game folder that a call of a pass creates,
\* removes or replaces is a path that an entry of a part of a mod of the
\* registry maps to under the install root of the part, or a folder above
\* such a path.
C32_OnlyOverlayTouched ==
    [][(pc > 0 /\ pc' # pc) =>
         \A x \in Touched(fs, fs') :
           \E t \in Overlay(RegNow, fs) \cup Overlay(RegNow', fs) : IsPrefix(x, t)]_vars

\* In a game without data folder the install call of a pass has linked the
\* files of the installer's parts, and the game's own Data/foo.esp, to which
\* no part maps, is what it was.
C32_Witness ==
    /\ pc = 4
    /\ config.data_folder = None
    /\ Cardinality(Links(fs)) >= 2
    /\ join(GameFolder, <<s_Data, s_foo_esp>>) \in DOMAIN fs.files
    /\ fs.files[join(GameFolder, <<s_Data, s_foo_esp>>)] = VanillaFile

Stems(paths) == {file_stem(Last(paths[k])) : k \in 1..Len(paths)}

\* C34: whatever archives of the downloads folder `clim add` is given, with
\* or without -e, when it succeeds: the mods registered before keep their
\* position, archive, extracted folder and parts; the entries after them
\* are new names without extracted folder and without parts; no name occurs
\* twice; every mod named by an archive is registered with its enabled flag
\* equal to the enable argument, and no other mod's flag changes.
C34_AddAppendsOrKeeps ==
    pc = 0 =>
      \A paths \in Lists(DownloadPaths(fs)), e \in BOOLEAN :
        With(add(saved, fs, GameName, paths, FALSE, e), LAMBDA r :
          r.err = "Ok" =>
            /\ Len(r.mods) >= Len(saved)
            /\ \A i \in 1..Len(saved) :
                 /\ r.mods[i].name = saved[i].name
                 /\ r.mods[i].mm.archive = saved[i].mm.archive
                 /\ r.mods[i].mm.extracted = saved[i].mm.extracted
                 /\ r.mods[i].mm.parts = saved[i].mm.parts
                 /\ r.mods[i].name \notin Stems(paths)
                      => r.mods[i].mm.enabled = saved[i].mm.enabled
            /\ \A i \in (Len(saved) + 1)..Len(r.mods) :
                 /\ r.mods[i].name \notin Keys(saved)
                 /\ r.mods[i].mm.extracted = None
                 /\ r.mods[i].mm.parts = <<>>
            /\ \A i, j \in 1..Len(r.mods) : r.mods[i].name = r.mods[j].name => i = j
            /\ Stems(paths) \subseteq Keys(r.mods)
            /\ \A i \in 1..Len(r.mods) :
                 r.mods[i].name \in Stems(paths) => r.mods[i].mm.enabled = e)

\* `clim add` has just run on a registry whose first mod was extracted: that
\* mod stands first, disabled, with its folder, and the mod after it is
\* enabled and has neither folder nor parts.
C34_Witness ==
    /\ pc = 0 /\ last.cmd = "add" /\ last.err = "Ok"
    /\ Len(saved) = 2
    /\ ~saved[1].mm.enabled
    /\ IsSome(saved[1].mm.extracted)
    /\ saved[2].mm.enabled
    /\ saved[2].mm.extracted = None
    /\ saved[2].mm.parts = <<>>

\* The step is a `clim set-active` of a name.
SetsActive == pc = 0 /\ pc' = 0 /\ last'.cmd = "set-active" /\ last'.arg # None

\* C35: in every state the active game, when there is one, is a known game;
\* a `clim init` that succeeds has added its name to the known games and
\* made it the active game; a `clim set-active` of a known game succeeds and
\* makes it the active game, the known games staying as they were, and a
\* `clim set-active` of any other name ends with the unknown-game error
\* and leaves the active game and the known games as they were.
C35_ActiveIsKnown ==
    /\ [](IsSome(gc.active_game) => gc.active_game[1] \in gc.games)
    /\ [][/\ (Inits /\ last'.err = "Ok")
               => /\ gc'.active_game = last'.arg
                  /\ gc'.games = gc.games \cup {last'.arg[1]}
          /\ SetsActive
               => IF last'.arg[1] \in gc.games
                  THEN /\ last'.err = "Ok"
                       /\ gc'.active_game = last'.arg
                       /\ gc'.games = gc.games
                  ELSE /\ last'.err = "UnknownGame"
                       /\ gc' = gc]_vars

\* Game h was initialised and is the active game, and a `clim set-active k`
\* of the unknown game k has failed.
C35_Witness ==
    /\ last.cmd = "set-active" /\ last.err = "UnknownGame" /\ last.arg = Some(<<"k">>)
    /\ gc.active_game = Some(<<"h">>)
    /\ gc.games = {GameName, <<"h">>}

====
